---- MODULE Spec2Model ----
(***************************************************************************)
(* A model of the sassers compiler core: the Substituter (variable and     *)
(* mixin scopes), the rule optimizer and selector distribution, colour     *)
(* arithmetic and mixin argument collation.                                *)
(*                                                                         *)
(* Text is modelled in two ways.  Names and value texts that the code only *)
(* compares or looks up are TLA+ strings.  Selector text, which the code   *)
(* searches, trims, splits and joins, is a sequence of one-character       *)
(* strings.                                                                *)
(***************************************************************************)
EXTENDS Integers, Sequences, FiniteSets, TLC

VARIABLES
    variables,  \* Substituter.variables : name -> ValuePart
    mixins,     \* Substituter.mixins    : name -> SassMixin
    tokenizer,  \* the item the inner tokenizer yielded to the last call step
    emitted,    \* what that step of Substituter::next produced
    status,     \* "running", "done" (tokenizer exhausted) or "aborted" (panic)
    call,       \* pure-function harness: the function applied and its inputs
    ret         \* pure-function harness: what it returned

vars == <<variables, mixins, tokenizer, emitted, status, call, ret>>

subVars == <<variables, mixins, tokenizer, emitted, status>>
fnVars == <<call, ret>>

-----------------------------------------------------------------------------
(* Result<T>, Option<T> and HashMap                                        *)

Ok(v) == [ok |-> TRUE, value |-> v]
Err(k) == [ok |-> FALSE, kind |-> k]

\* A panic (unwrap of an Err, unimplemented!, an index out of bounds): the
\* program aborts and nothing is returned.
Panic == [type |-> "Panic"]

None == [some |-> FALSE]
Some(v) == [some |-> TRUE, v |-> v]

EmptyMap == [k \in {} |-> k]
Insert(m, k, v) == [n \in (DOMAIN m) \cup {k} |-> IF n = k THEN v ELSE m[n]]

-----------------------------------------------------------------------------
(* Value parts and events                                                  *)

StringPart(s) == [type |-> "String", str |-> s]
NumberPart(n, c) == [type |-> "Number", scalar |-> n, computed |-> c]

Variable(n, v) == [type |-> "Variable", name |-> n, value |-> v]
UnevaluatedProperty(n, v) == [type |-> "UnevaluatedProperty", name |-> n, value |-> v]
Property(n, v) == [type |-> "Property", name |-> n, value |-> v]
Rule(s, c) == [type |-> "Rule", selectors |-> s, children |-> c]
Mixin(n, p, c) == [type |-> "Mixin", name |-> n, parameters |-> p, children |-> c]
MixinCall(n, a) == [type |-> "MixinCall", name |-> n, arguments |-> a]
Comment(t) == [type |-> "Comment", text |-> t]

SassMixinParameter(n, d) == [name |-> n, default |-> d]
SassMixinArgument(n, v) == [name |-> n, value |-> v]

-----------------------------------------------------------------------------
(* The expression evaluator, as far as the Substituter uses it: a value    *)
(* text is a number literal, a variable reference, or a malformed          *)
(* expression.  A bound variable is replaced by its value, an unbound one  *)
(* reduces to its name as a String.                                        *)

BadValue == "+"
NumberTexts == {"1", "2"}
ScalarOf(t) == IF t = "1" THEN 1 ELSE 2

Evaluate(value, vars_) ==
    IF value = BadValue THEN Err("ExpectedValue")
    ELSE IF value \in DOMAIN vars_ THEN Ok(vars_[value])
    ELSE IF value \in NumberTexts THEN Ok(NumberPart(ScalarOf(value), FALSE))
    ELSE Ok(StringPart(value))

owned_evaluated_value(value, vars_) ==
    LET value_part == Evaluate(value, vars_) IN
    IF ~value_part.ok THEN value_part
    ELSE IF value_part.value.type = "Number"
         THEN Ok([value_part.value EXCEPT !.computed = TRUE])
         ELSE value_part

-----------------------------------------------------------------------------
(* collate_mixin_args                                                      *)

\* The first loop: every argument that carries a name is inserted under that
\* name, a later one overwriting an earlier one.
RECURSIVE named_arguments_from(_, _, _)
named_arguments_from(arguments, i, named_arguments) ==
    IF i > Len(arguments) THEN named_arguments
    ELSE named_arguments_from(arguments, i + 1,
            IF arguments[i].name.some
            THEN Insert(named_arguments, arguments[i].name.v, arguments[i].value)
            ELSE named_arguments)

\* named_arguments.get(&p.name).or(arguments.get(i)).or(p.default).ok_or(..)
\* for the parameter p at (1-based) index i.
replacement_value(p, i, arguments, named_arguments) ==
    IF p.name \in DOMAIN named_arguments THEN Ok(named_arguments[p.name])
    ELSE IF i <= Len(arguments) THEN Ok(arguments[i].value)
    ELSE IF p.default.some THEN Ok(p.default.v)
    ELSE Err("ExpectedMixinArgument")

RECURSIVE collate_from(_, _, _, _, _)
collate_from(parameters, arguments, named_arguments, i, replacements) ==
    IF i > Len(parameters) THEN Ok(replacements)
    ELSE LET v == replacement_value(parameters[i], i, arguments, named_arguments) IN
         IF ~v.ok THEN v
         ELSE collate_from(parameters, arguments, named_arguments, i + 1,
                 Insert(replacements, parameters[i].name, StringPart(v.value)))

collate_mixin_args(parameters, arguments) ==
    collate_from(parameters, arguments,
                 named_arguments_from(arguments, 1, EmptyMap), 1, EmptyMap)

-----------------------------------------------------------------------------
(* replace_children_in_scope: one pass over the children of a rule (or of  *)
(* a mixin body) with a private variable table.  The loop state is the     *)
(* table and the results so far; an error ends the loop at once.           *)

Loop(local_variables, results) ==
    [ok |-> TRUE, local_variables |-> local_variables, results |-> results]

RECURSIVE children_loop(_, _, _, _)

replace_children_in_scope(children, local_variables, local_mixins) ==
    LET st == children_loop(children, 1, Loop(local_variables, <<>>), local_mixins) IN
    IF st.ok THEN Ok(st.results) ELSE st

\* Mutant: a name that is already bound keeps its first value.
VariableStep_KeepFirst(st, c) ==
    LET val == owned_evaluated_value(c.value, st.local_variables) IN
    IF ~val.ok THEN val
    ELSE IF c.name \in DOMAIN st.local_variables THEN st
    ELSE Loop(Insert(st.local_variables, c.name, val.value), st.results)

VariableStep(st, c) ==
    LET val == owned_evaluated_value(c.value, st.local_variables) IN
    IF ~val.ok THEN val
    ELSE Loop(Insert(st.local_variables, c.name, val.value), st.results)

PropertyStep(st, c) ==
    LET ev_res == Evaluate(c.value, st.local_variables) IN
    IF ~ev_res.ok THEN ev_res
    ELSE Loop(st.local_variables, Append(st.results, Property(c.name, ev_res.value)))

\* Mutant: the nested rule runs on the enclosing table itself instead of a clone.
RuleStep_SharedScope(st, rule, local_mixins) ==
    LET inner == children_loop(rule.children, 1, Loop(st.local_variables, <<>>),
                               local_mixins) IN
    IF ~inner.ok THEN inner
    ELSE Loop(inner.local_variables,
              Append(st.results, Rule(rule.selectors, inner.results)))

RuleStep(st, rule, local_mixins) ==
    LET res == replace_children_in_scope(rule.children, st.local_variables, local_mixins) IN
    IF ~res.ok THEN res
    ELSE Loop(st.local_variables,
              Append(st.results, Rule(rule.selectors, res.value)))

\* Mutant: a call of an unknown mixin is skipped instead of reported.
MixinCallStep_SkipUnknown(st, mixin_call, local_mixins) ==
    IF mixin_call.name \notin DOMAIN local_mixins THEN st
    ELSE LET mixin_definition == local_mixins[mixin_call.name]
             mixin_replacements == collate_mixin_args(mixin_definition.parameters,
                                                      mixin_call.arguments)
         IN  IF ~mixin_replacements.ok THEN mixin_replacements
             ELSE LET res == replace_children_in_scope(mixin_definition.children,
                                 mixin_replacements.value, local_mixins)
                  IN  IF ~res.ok THEN res
                      ELSE Loop(st.local_variables, st.results \o res.value)

MixinCallStep(st, mixin_call, local_mixins) ==
    IF mixin_call.name \notin DOMAIN local_mixins THEN Err("ExpectedMixin")
    ELSE LET mixin_definition == local_mixins[mixin_call.name]
             mixin_replacements == collate_mixin_args(mixin_definition.parameters,
                                                      mixin_call.arguments)
         IN  IF ~mixin_replacements.ok THEN mixin_replacements
             ELSE LET res == replace_children_in_scope(mixin_definition.children,
                                 mixin_replacements.value, local_mixins)
                  IN  IF ~res.ok THEN res
                      ELSE Loop(st.local_variables, st.results \o res.value)

OtherStep(st, c) == Loop(st.local_variables, Append(st.results, c))

ChildStep(st, c, local_mixins) ==
    CASE c.type = "Variable" -> VariableStep(st, c)
      [] c.type = "UnevaluatedProperty" -> PropertyStep(st, c)
      [] c.type = "Rule" -> RuleStep(st, c, local_mixins)
      [] c.type = "MixinCall" -> MixinCallStep(st, c, local_mixins)
      [] OTHER -> OtherStep(st, c)

children_loop(children, i, st, local_mixins) ==
    IF i > Len(children) THEN st
    ELSE LET next_st == ChildStep(st, children[i], local_mixins) IN
         IF ~next_st.ok THEN next_st
         ELSE children_loop(children, i + 1, next_st, local_mixins)

-----------------------------------------------------------------------------
(* Text as sequences of one-character strings, with the std operations the *)
(* rule code uses: contains, replace, trim, split, join.                   *)

Contains(str, ch) == \E i \in 1..Len(str) : str[i] = ch

RECURSIVE Replace(_, _, _)
Replace(str, ch, with) ==
    IF str = <<>> THEN <<>>
    ELSE (IF Head(str) = ch THEN with ELSE <<Head(str)>>) \o Replace(Tail(str), ch, with)

RECURSIVE TrimStart(_)
TrimStart(str) ==
    IF str # <<>> /\ Head(str) = " " THEN TrimStart(Tail(str)) ELSE str

RECURSIVE TrimEnd(_)
TrimEnd(str) ==
    IF str # <<>> /\ str[Len(str)] = " " THEN TrimEnd(SubSeq(str, 1, Len(str) - 1)) ELSE str

Trim(str) == TrimEnd(TrimStart(str))

\* str.split(ch): k separators give k + 1 pieces, empty pieces included.
RECURSIVE Split(_, _)
Split(str, ch) ==
    IF ~Contains(str, ch) THEN <<str>>
    ELSE LET i == CHOOSE k \in 1..Len(str) :
                      str[k] = ch /\ \A j \in 1..(k - 1) : str[j] # ch
         IN  <<SubSeq(str, 1, i - 1)>> \o Split(SubSeq(str, i + 1, Len(str)), ch)

RECURSIVE Join(_, _)
Join(strs, separator) ==
    IF strs = <<>> THEN <<>>
    ELSE IF Len(strs) = 1 THEN strs[1]
    ELSE strs[1] \o separator \o Join(Tail(strs), separator)

RECURSIVE Flatten(_)
Flatten(seqs) == IF seqs = <<>> THEN <<>> ELSE Head(seqs) \o Flatten(Tail(seqs))

-----------------------------------------------------------------------------
(* SassRule over the AST: a rule is its selectors (lexemes) and children,  *)
(* a child is a Node::Rule or a Node::Property.                            *)

Lexeme(token, offset) == [token |-> token, offset |-> offset]

\* Mutant: the ancestor segment is used as split, without trimming it.
selector_distribution_untrimmed(self, parents, separator) ==
    IF Len(parents) = 0
    THEN Join([i \in 1..Len(self.selectors) |-> self.selectors[i].token], separator)
    ELSE LET segments == Split(parents, ",")
             distributed(p) ==
                 Join([i \in 1..Len(self.selectors) |->
                          LET s == self.selectors[i].token IN
                          IF Contains(s, "&") THEN Replace(s, "&", p)
                          ELSE p \o <<" ">> \o s],
                      separator)
         IN  Join([k \in 1..Len(segments) |-> distributed(segments[k])], separator)

selector_distribution(self, parents, separator) ==
    IF Len(parents) = 0
    THEN Join([i \in 1..Len(self.selectors) |-> self.selectors[i].token], separator)
    ELSE LET segments == Split(parents, ",")
             distributed(p) ==
                 Join([i \in 1..Len(self.selectors) |->
                          LET s == self.selectors[i].token IN
                          IF Contains(s, "&") THEN Replace(s, "&", Trim(p))
                          ELSE Trim(p) \o <<" ">> \o s],
                      separator)
         IN  Join([k \in 1..Len(segments) |-> distributed(segments[k])], separator)

child_properties(self) == SelectSeq(self.children, LAMBDA c : c.type = "Property")

child_rules(self) == SelectSeq(self.children, LAMBDA c : c.type = "Rule")

has_properties(self) == child_properties(self) # <<>>

RECURSIVE optimize(_)

\* Mutant: the collapsed rule is returned as it is, without optimizing it.
collapse_without_optimize(self, parents) ==
    <<Rule(Flatten([i \in 1..Len(parents) |->
                       [j \in 1..Len(self.selectors) |->
                           Lexeme(parents[i].token \o <<" ">> \o self.selectors[j].token,
                                  parents[i].offset)]]),
           self.children)>>

\* Mutant: the new selectors are listed child-major instead of parent-major.
collapse_child_major(self, parents) ==
    LET new_selectors ==
            Flatten([j \in 1..Len(self.selectors) |->
                        [i \in 1..Len(parents) |->
                            Lexeme(parents[i].token \o <<" ">> \o self.selectors[j].token,
                                   parents[i].offset)]])
    IN  optimize(Rule(new_selectors, self.children))

collapse_with_parent_selectors(self, parents) ==
    LET new_selectors ==
            Flatten([i \in 1..Len(parents) |->
                        [j \in 1..Len(self.selectors) |->
                            Lexeme(parents[i].token \o <<" ">> \o self.selectors[j].token,
                                   parents[i].offset)]])
    IN  optimize(Rule(new_selectors, self.children))

optimize(self) ==
    IF has_properties(self) THEN <<self>>
    ELSE LET crs == child_rules(self) IN
         Flatten([i \in 1..Len(crs) |-> collapse_with_parent_selectors(crs[i], self.selectors)])

-----------------------------------------------------------------------------
(* ColorValue.  Channels are i32; the f32 values the arithmetic passes     *)
(* through are integers or quotients of integers, kept exact by bounding   *)
(* the operands.                                                           *)

MaxI32 == 2147483647
MinI32 == -MaxI32 - 1
MaxChannel == 255

Min(a, b) == IF a <= b THEN a ELSE b
Abs(a) == IF a < 0 THEN -a ELSE a

HexDigit(d) ==
    <<"0", "1", "2", "3", "4", "5", "6", "7", "8", "9", "a", "b", "c", "d", "e", "f">>[d + 1]

RECURSIVE HexDigits(_)
HexDigits(n) ==
    IF n < 16 THEN <<HexDigit(n)>> ELSE HexDigits(n \div 16) \o <<HexDigit(n % 16)>>

RECURSIVE PadLeft(_, _)
PadLeft(digits, width) ==
    IF Len(digits) >= width THEN digits ELSE PadLeft(<<"0">> \o digits, width)

\* format!("{:02x}", n) of an i32: at least two digits, and the 32-bit two's
\* complement pattern of a negative n.
Format02x(n) ==
    IF n >= 0 THEN PadLeft(HexDigits(n), 2)
    ELSE LET m == n + MaxI32 + 1 IN
         <<HexDigit(8 + (m \div 268435456))>> \o PadLeft(HexDigits(m % 268435456), 7)

FormatRgb(r, g, b) == <<"#">> \o Format02x(r) \o Format02x(g) \o Format02x(b)

ColorValue(r, g, b, original) ==
    [red |-> r, green |-> g, blue |-> b, original |-> original]

from_rgb(r, g, b) == ColorValue(r, g, b, FormatRgb(r, g, b))

HexValues ==
    [c \in {"0", "1", "2", "3", "4", "5", "6", "7", "8", "9", "a", "b", "c", "d", "e", "f",
            "A", "B", "C", "D", "E", "F"} |->
        CASE c \in {"a", "A"} -> 10 [] c \in {"b", "B"} -> 11 [] c \in {"c", "C"} -> 12
          [] c \in {"d", "D"} -> 13 [] c \in {"e", "E"} -> 14 [] c \in {"f", "F"} -> 15
          [] OTHER -> CHOOSE d \in 0..9 : HexDigit(d) = c]

RECURSIVE DigitsValue(_, _)
DigitsValue(digits, acc) ==
    IF digits = <<>> THEN acc
    ELSE DigitsValue(Tail(digits), 16 * acc + HexValues[Head(digits)])

\* i32::from_str_radix(src, 16): an optional sign, then one or more hex digits.
from_str_radix(src) ==
    LET signed == src # <<>> /\ Head(src) \in {"+", "-"}
        digits == IF signed THEN Tail(src) ELSE src
    IN  IF digits = <<>> \/ \E i \in 1..Len(digits) : digits[i] \notin DOMAIN HexValues
        THEN Err("ParseIntError")
        ELSE Ok(IF signed /\ Head(src) = "-" THEN -DigitsValue(digits, 0)
                ELSE DigitsValue(digits, 0))

\* The three channels unwrapped: a digit that does not parse aborts.
channels_unwrapped(red, green, blue, scale, hex) ==
    IF red.ok /\ green.ok /\ blue.ok
    THEN Ok(ColorValue(red.value * scale, green.value * scale, blue.value * scale, hex))
    ELSE Panic

from_hex(hex) ==
    IF Len(hex) = 4
    THEN channels_unwrapped(from_str_radix(SubSeq(hex, 2, 2)), from_str_radix(SubSeq(hex, 3, 3)),
                            from_str_radix(SubSeq(hex, 4, 4)), 17, hex)
    ELSE IF Len(hex) = 7
    THEN channels_unwrapped(from_str_radix(SubSeq(hex, 2, 3)), from_str_radix(SubSeq(hex, 4, 5)),
                            from_str_radix(SubSeq(hex, 6, 7)), 1, hex)
    ELSE Err("InvalidColor")

NumberValue_from_scalar(num) == [scalar |-> num, unit |-> None, computed |-> FALSE]

Display(color) ==
    LET candidate == FormatRgb(color.red, color.green, color.blue) IN
    IF Len(candidate) < Len(color.original) THEN candidate ELSE color.original

Ops == {"Plus", "Minus", "Star", "Slash", "Percent"}

\* x / y rounded toward zero, as the cast of the quotient to i32 rounds it.
TruncDiv(x, y) ==
    IF (x >= 0) = (y > 0) THEN Abs(x) \div Abs(y) ELSE -(Abs(x) \div Abs(y))

\* The values `op.math(a, b) as i32` can take.  A division or remainder by
\* zero gives an infinity or a NaN, whose cast is 0 or the nearest i32 under
\* the saturating cast and i32::MIN under the older truncating instruction.
MathAsI32(op, a, b) ==
    CASE op = "Plus" -> {a + b}
      [] op = "Minus" -> {a - b}
      [] op = "Star" -> {a * b}
      [] op = "Slash" ->
            IF b # 0 THEN {TruncDiv(a, b)}
            ELSE IF a > 0 THEN {MaxI32, MinI32}
            ELSE IF a < 0 THEN {MinI32}
            ELSE {0, MinI32}
      [] op = "Percent" ->
            IF b # 0 THEN {IF a >= 0 THEN a % Abs(b) ELSE -((-a) % Abs(b))}
            ELSE {0, MinI32}

apply_math(self, op, nv) ==
    {Ok(from_rgb(Min(r, MaxChannel), Min(g, MaxChannel), Min(b, MaxChannel))) :
        r \in MathAsI32(op, self.red, nv.scalar),
        g \in MathAsI32(op, self.green, nv.scalar),
        b \in MathAsI32(op, self.blue, nv.scalar)}

combine_colors(self, op, c) ==
    {Ok(from_rgb(r, g, b)) :
        r \in MathAsI32(op, self.red, c.red),
        g \in MathAsI32(op, self.green, c.green),
        b \in MathAsI32(op, self.blue, c.blue)}

-----------------------------------------------------------------------------
(* The items the inner tokenizer can yield: a bounded sample of the        *)
(* parser's output.                                                        *)

MaxNest == 2    \* rule bodies nest at most this deep below a top-level rule

BoxDefaults ==
    Mixin("box",
          <<SassMixinParameter("$p", Some("4px")), SassMixinParameter("$c", Some("red"))>>,
          <<UnevaluatedProperty("padding", "$p"), UnevaluatedProperty("color", "$c")>>)
BoxRequired ==
    Mixin("box",
          <<SassMixinParameter("$p", None)>>,
          <<UnevaluatedProperty("x", "$a"), UnevaluatedProperty("y", "$p")>>)
BoxCalling ==
    Mixin("box", <<>>, <<MixinCall("nope", <<>>)>>)

MixinEvents == {BoxDefaults, BoxRequired, BoxCalling}

VariableEvents == {Variable("$a", t) : t \in {"1", "2", BadValue}}

BindA == Variable("$a", "2")
UseA == UnevaluatedProperty("x", "$a")
BadProperty == UnevaluatedProperty("x", BadValue)
CallBox == MixinCall("box", <<>>)
CallBoxNamed == MixinCall("box", <<SassMixinArgument(Some("$c"), "blue")>>)
CallBoxPositional == MixinCall("box", <<SassMixinArgument(None, "9")>>)
CallUnknown == MixinCall("nope", <<>>)
InnerComment == Comment("/* c */")

LeafBodies ==
    {<<>>, <<UseA>>, <<BindA, UseA>>, <<CallBox>>, <<CallBoxNamed>>, <<CallBoxPositional>>,
     <<CallUnknown>>, <<BadProperty, CallUnknown>>, <<InnerComment>>}

\* A body one level deeper holds a nested rule: alone, followed by a property
\* of the enclosing rule, or between a binding and a property of the
\* enclosing rule.
Nest(b) ==
    LET nested == Rule(<<"i">>, b) IN
    {<<nested>>, <<nested, UseA>>, <<Variable("$a", "1"), nested, UseA>>}

RECURSIVE Bodies(_)
Bodies(depth) ==
    IF depth = 0 THEN LeafBodies
    ELSE LeafBodies \cup UNION {Nest(b) : b \in Bodies(depth - 1)}

RuleEvents == {Rule(<<".q">>, b) : b \in Bodies(MaxNest)}

MixinCallEvents == {CallBox}

OtherItems ==
    {Comment("/* c */"), [type |-> "None"], [type |-> "Err", kind |-> "TokenizerError"]}

-----------------------------------------------------------------------------
(* Substituter::next, one tokenizer item per step.  A Variable or Mixin    *)
(* item that is absorbed makes next call itself again: that is emitted =   *)
(* Recurse, and the following step is the nested call.                     *)

Recurse == [type |-> "Recurse"]

Idle == [fn |-> "none"]

Init ==
    /\ variables = EmptyMap
    /\ mixins = EmptyMap
    /\ tokenizer = [type |-> "None"]
    /\ emitted = Recurse
    /\ status = "running"
    /\ call = Idle
    /\ ret = Idle

NextVariable ==
    /\ status = "running"
    /\ \E ev \in VariableEvents :
          LET val == owned_evaluated_value(ev.value, variables) IN
          /\ tokenizer' = ev
          /\ IF val.ok
             THEN /\ variables' = Insert(variables, ev.name, val.value)
                  /\ emitted' = Recurse
             ELSE /\ variables' = variables
                  /\ emitted' = val
    /\ UNCHANGED <<mixins, status, call, ret>>

NextMixin ==
    /\ status = "running"
    /\ \E mixin \in MixinEvents :
          /\ tokenizer' = mixin
          /\ mixins' = Insert(mixins, mixin.name, mixin)
    /\ emitted' = Recurse
    /\ UNCHANGED <<variables, status, call, ret>>

\* Mutant: the rule body runs on the Substituter's own table instead of a clone.
NextRule_SharedScope ==
    /\ status = "running"
    /\ \E sass_rule \in RuleEvents :
          LET st == children_loop(sass_rule.children, 1, Loop(variables, <<>>), mixins) IN
          /\ tokenizer' = sass_rule
          /\ emitted' = IF st.ok THEN Ok(Rule(sass_rule.selectors, st.results)) ELSE st
          /\ variables' = IF st.ok THEN st.local_variables ELSE variables
    /\ UNCHANGED <<mixins, status, call, ret>>

NextRule ==
    /\ status = "running"
    /\ \E sass_rule \in RuleEvents :
          LET replaced == replace_children_in_scope(sass_rule.children, variables, mixins) IN
          /\ tokenizer' = sass_rule
          /\ emitted' = IF replaced.ok
                        THEN Ok(Rule(sass_rule.selectors, replaced.value))
                        ELSE replaced
    /\ UNCHANGED <<variables, mixins, status, call, ret>>

NextMixinCall ==
    /\ status = "running"
    /\ \E ev \in MixinCallEvents : tokenizer' = ev
    /\ emitted' = Panic
    /\ status' = "aborted"
    /\ UNCHANGED <<variables, mixins, call, ret>>

NextOther ==
    /\ status = "running"
    /\ \E other \in OtherItems :
          /\ tokenizer' = other
          /\ emitted' = other
          /\ status' = IF other.type = "None" THEN "done" ELSE status
    /\ UNCHANGED <<variables, mixins, call, ret>>

Next ==
    \/ NextVariable
    \/ NextMixin
    \/ NextRule
    \/ NextMixinCall
    \/ NextOther

Spec == Init /\ [][Next]_vars

-----------------------------------------------------------------------------
(* Claims about the Substituter                                            *)

InBody(children, c) == \E i \in 1..Len(children) : children[i] = c

\* C1: a step of Substituter::next that consumes a top-level Rule leaves the
\* Substituter's top-level variable table exactly as it was, whatever the
\* rule body binds or rebinds; so the table every later rule is evaluated
\* against is the one it would have been without that rule's bindings.
C1_TopLevelScopeIsolation ==
    [][tokenizer'.type = "Rule" => variables' = variables]_vars

\* A rule whose body rebinds $a to 2 has been substituted while the top-level
\* table binds $a to 1, and the table still binds $a to 1.
C1_Witness ==
    /\ tokenizer.type = "Rule"
    /\ InBody(tokenizer.children, BindA)
    /\ emitted.ok
    /\ InBody(emitted.value.children, Property("x", NumberPart(2, TRUE)))
    /\ "$a" \in DOMAIN variables
    /\ variables["$a"] = NumberPart(1, TRUE)

IsRule(c) == c.type = "Rule"

RECURSIVE Filter(_, _)
Filter(seq, keepRules) ==
    IF seq = <<>> THEN <<>>
    ELSE IF IsRule(Head(seq)) = keepRules
         THEN <<Head(seq)>> \o Filter(Tail(seq), keepRules)
         ELSE Filter(Tail(seq), keepRules)

\* The loop state after the first n children of a body.
ScopeAfter(children, n, local_variables, local_mixins) ==
    children_loop(SubSeq(children, 1, n), 1, Loop(local_variables, <<>>), local_mixins)

RECURSIVE NoLeakUpward(_, _, _)
NoLeakUpward(children, local_variables, local_mixins) ==
    \A i \in 1..Len(children) :
        IsRule(children[i]) =>
            LET before == ScopeAfter(children, i - 1, local_variables, local_mixins)
                after == ScopeAfter(children, i, local_variables, local_mixins)
            IN  (before.ok /\ after.ok) =>
                    /\ after.local_variables = before.local_variables
                    /\ NoLeakUpward(children[i].children, before.local_variables,
                                    local_mixins)

\* C2: inside replace_children_in_scope, processing a nested child Rule leaves
\* the enclosing rule's variable table as it was before the nested rule, at
\* every nesting depth (the mixin table is a read-only parameter of the
\* function); and what the enclosing rule emits besides its nested rules is
\* what it emits with the nested rules deleted from its body.
C2_NestedScopeIsolation ==
    (tokenizer.type = "Rule" /\ emitted.ok) =>
        /\ NoLeakUpward(tokenizer.children, variables, mixins)
        /\ LET without == replace_children_in_scope(
                              Filter(tokenizer.children, FALSE), variables, mixins)
           IN  /\ without.ok
               /\ Filter(emitted.value.children, FALSE) = without.value

\* The enclosing rule binds $a to 1, a nested rule rebinds $a to 2 and uses it,
\* and the property after the nested rule still sees 1.
C2_Witness ==
    /\ tokenizer.type = "Rule"
    /\ tokenizer.children = <<Variable("$a", "1"), Rule(<<"i">>, <<BindA, UseA>>), UseA>>
    /\ emitted.ok
    /\ emitted.value.children =
           <<Rule(<<"i">>, <<Property("x", NumberPart(2, TRUE))>>),
             Property("x", NumberPart(1, TRUE))>>

\* Children that cannot fail in any scope.
RECURSIVE Harmless(_)
Harmless(c) ==
    CASE c.type \in {"Variable", "UnevaluatedProperty"} -> c.value # BadValue
      [] c.type = "Rule" -> \A i \in 1..Len(c.children) : Harmless(c.children[i])
      [] c.type = "MixinCall" -> FALSE
      [] OTHER -> TRUE

\* Some call of a mixin not in the table, at any rule nesting depth.
RECURSIVE HasUnknownCall(_, _)
HasUnknownCall(children, table) ==
    \E i \in 1..Len(children) :
        \/ children[i].type = "MixinCall" /\ children[i].name \notin DOMAIN table
        \/ IsRule(children[i]) /\ HasUnknownCall(children[i].children, table)

\* In source order, the first child that can fail is a call of an unknown mixin.
RECURSIVE UnknownCallFirst(_, _)
UnknownCallFirst(children, table) ==
    \E i \in 1..Len(children) :
        /\ \A j \in 1..(i - 1) : Harmless(children[j])
        /\ \/ children[i].type = "MixinCall" /\ children[i].name \notin DOMAIN table
           \/ IsRule(children[i]) /\ UnknownCallFirst(children[i].children, table)

\* C10: a top-level rule whose body (at any nesting depth) calls a mixin that
\* is not in the mixin table is never emitted: Substituter::next returns an
\* error for it, and that error is ExpectedMixin whenever the call is the
\* first child of the body that fails.
C10_UnknownMixinIsExpectedMixin ==
    (tokenizer.type = "Rule" /\ HasUnknownCall(tokenizer.children, mixins)) =>
        /\ ~emitted.ok
        /\ UnknownCallFirst(tokenizer.children, mixins) => emitted = Err("ExpectedMixin")

\* An unknown mixin is called in a nested rule while another mixin is defined.
C10_Witness ==
    /\ tokenizer.type = "Rule"
    /\ "box" \in DOMAIN mixins
    /\ \E i \in 1..Len(tokenizer.children) :
          /\ IsRule(tokenizer.children[i])
          /\ InBody(tokenizer.children[i].children, CallUnknown)
    /\ UnknownCallFirst(tokenizer.children, mixins)
    /\ emitted = Err("ExpectedMixin")

OnlyProperties(children) ==
    \A k \in 1..Len(children) : children[k].type = "UnevaluatedProperty"

ParameterNames(mixin) == {mixin.parameters[k].name : k \in 1..Len(mixin.parameters)}

\* C11: when a rule body calls a mixin whose body consists of properties, the
\* properties of the expansion stand in the enclosing rule's results at the
\* position of the call, in body order, and a property whose value is a
\* variable bound at the call site and not a parameter of the mixin carries
\* the call-site value of that variable.
C11_MixinBodySeesCallSiteScope ==
    (tokenizer.type = "Rule" /\ emitted.ok) =>
        \A i \in 1..Len(tokenizer.children) :
            LET c == tokenizer.children[i] IN
            (c.type = "MixinCall" /\ OnlyProperties(mixins[c.name].children)) =>
                LET before == ScopeAfter(tokenizer.children, i - 1, variables, mixins)
                    after == ScopeAfter(tokenizer.children, i, variables, mixins)
                    body == mixins[c.name].children
                    at == Len(before.results)
                IN  /\ Len(after.results) = at + Len(body)
                    /\ SubSeq(emitted.value.children, 1, Len(after.results)) = after.results
                    /\ \A k \in 1..Len(body) :
                          /\ after.results[at + k].name = body[k].name
                          /\ (/\ body[k].value \in DOMAIN before.local_variables
                              /\ body[k].value \notin ParameterNames(mixins[c.name]))
                             => after.results[at + k].value
                                    = before.local_variables[body[k].value]

\* No UnevaluatedProperty, Variable or MixinCall at any depth of a body.
RECURSIVE Resolved(_)
Resolved(children) ==
    \A k \in 1..Len(children) :
        /\ children[k].type \notin {"UnevaluatedProperty", "Variable", "MixinCall"}
        /\ IsRule(children[k]) => Resolved(children[k].children)

\* C21: whatever the tokenizer yields, a step of Substituter::next does not
\* abort, and what it emits is a comment, an error, the end of the stream or
\* a rule with no UnevaluatedProperty, Variable or MixinCall at any depth
\* (a Variable or Mixin item is absorbed and emitted as nothing).
C21_EmitsOnlyResolved ==
    /\ status # "aborted"
    /\ emitted # Panic
    /\ IF "ok" \in DOMAIN emitted
       THEN emitted.ok =>
                /\ IsRule(emitted.value)
                /\ Resolved(emitted.value.children)
       ELSE emitted.type \in {"Recurse", "Comment", "None", "Err"}

IsBinding(c) == c.type = "Variable"

\* The bindings among the first n children of a body, in source order.
BindingsBefore(children, n) == SelectSeq(SubSeq(children, 1, n), IsBinding)

\* The value a name has for a reader that has seen the given bindings (of the
\* enclosing bodies and its own, outermost first, each a number literal) on
\* top of the top-level table: that of the last binding of the name.
MostRecentBinding(name, bindings, table) ==
    LET js == {j \in 1..Len(bindings) : bindings[j].name = name} IN
    IF js # {}
    THEN LET last == CHOOSE j \in js : \A k \in js : k <= j IN
         Some(NumberPart(ScalarOf(bindings[last].value), TRUE))
    ELSE IF name \in DOMAIN table THEN Some(table[name]) ELSE None

\* The place in the results of what the i-th child of a body emits, when no
\* mixin call precedes it: bindings emit nothing, every other child one item.
ResultIndex(children, i) == Cardinality({j \in 1..i : ~IsBinding(children[j])})

RECURSIVE BoundInOrder(_, _, _, _)
BoundInOrder(children, results, bindings, table) ==
    \A i \in 1..Len(children) :
        (\A j \in 1..i : children[j].type # "MixinCall") =>
            LET c == children[i]
                seen == bindings \o BindingsBefore(children, i - 1)
                at == ResultIndex(children, i)
            IN  /\ (c.type = "UnevaluatedProperty" /\ c.value \notin NumberTexts) =>
                       LET m == MostRecentBinding(c.value, seen, table) IN
                       results[at].value = IF m.some THEN m.v ELSE StringPart(c.value)
                /\ IsRule(c) =>
                       BoundInOrder(c.children, results[at].children, seen, table)

\* C22: a property of an emitted rule that refers to a variable carries the
\* value of the most recent binding of that variable that precedes it in
\* source order in its own body, the enclosing bodies or at top level; a
\* top-level binding that evaluates overwrites the value of its name and
\* leaves every other name alone; one whose evaluation fails is reported and
\* leaves the table as it was.
C22_BindingOrder ==
    [][/\ (tokenizer'.type = "Rule" /\ emitted'.ok) =>
              BoundInOrder(tokenizer'.children, emitted'.value.children, <<>>, variables)
       /\ tokenizer'.type = "Variable" =>
              IF tokenizer'.value \in NumberTexts
              THEN /\ emitted' = Recurse
                   /\ DOMAIN variables' = DOMAIN variables \cup {tokenizer'.name}
                   /\ \A n \in DOMAIN variables' :
                         variables'[n] =
                             IF n = tokenizer'.name
                             THEN NumberPart(ScalarOf(tokenizer'.value), TRUE)
                             ELSE variables[n]
              ELSE /\ emitted' = Err("ExpectedValue")
                   /\ variables' = variables]_vars

\* A rule is emitted whose body rebinds $a, bound to another value at top
\* level, and reads it after a nested rule that rebinds it again.
C22_Witness ==
    /\ tokenizer = Rule(<<".q">>, <<Variable("$a", "1"), Rule(<<"i">>, <<BindA, UseA>>), UseA>>)
    /\ "$a" \in DOMAIN variables
    /\ variables["$a"] = NumberPart(2, TRUE)
    /\ emitted = Ok(Rule(<<".q">>, <<Rule(<<"i">>, <<Property("x", NumberPart(2, TRUE))>>),
                                    Property("x", NumberPart(1, TRUE))>>))


-----------------------------------------------------------------------------
(* collate_mixin_args applied to sampled parameter and argument lists      *)

MaxParams == 2  \* parameters of a mixin declaration
MaxArgs == 2    \* arguments of a mixin call

ParamNames == {"$p", "$c"}
Defaults == {None, Some("4px"), Some("red")}
ArgValues == {"blue", "9"}

SeqsUpTo(S, n) == UNION {[1..k -> S] : k \in 0..n}

\* Declarations with pairwise distinct parameter names.
ParameterLists ==
    {ps \in SeqsUpTo({SassMixinParameter(n, d) : n \in ParamNames, d \in Defaults},
                     MaxParams) :
        \A i, j \in 1..Len(ps) : ps[i].name = ps[j].name => i = j}

ArgumentLists ==
    SeqsUpTo({SassMixinArgument(n, v) :
                 n \in {None} \cup {Some(x) : x \in ParamNames}, v \in ArgValues},
             MaxArgs)

CollateMixinArgs ==
    /\ call = Idle
    /\ \E parameters \in ParameterLists, arguments \in ArgumentLists :
          /\ call' = [fn |-> "collate_mixin_args", parameters |-> parameters,
                      arguments |-> arguments]
          /\ ret' = collate_mixin_args(parameters, arguments)
    /\ UNCHANGED subVars

NextCollate == CollateMixinArgs

SpecCollate == Init /\ [][NextCollate]_vars

\* The arguments that name n, and the value the call gives n by name (the
\* last such argument).
NamedFor(arguments, n) ==
    {i \in 1..Len(arguments) : arguments[i].name = Some(n)}

LastOf(S) == CHOOSE i \in S : \A j \in S : j <= i

\* What the precedence named > positional > default gives parameter i:
\* Some(text), or None when nothing is available.
Precedence(parameters, arguments, i) ==
    LET p == parameters[i] IN
    IF NamedFor(arguments, p.name) # {}
    THEN Some(arguments[LastOf(NamedFor(arguments, p.name))].value)
    ELSE IF i <= Len(arguments) /\ ~arguments[i].name.some
    THEN Some(arguments[i].value)
    ELSE p.default

\* C8: collate_mixin_args binds every declared parameter to the named argument
\* of its name, else to the positional (unnamed) argument at its index, else to
\* its default; it returns ExpectedMixinArgument when some parameter has none
\* of the three, and otherwise exactly one binding per declared parameter.
C8_BindingPrecedence ==
    call.fn = "collate_mixin_args" =>
        LET ps == call.parameters
            as == call.arguments
        IN  IF \E i \in 1..Len(ps) : ~Precedence(ps, as, i).some
            THEN ret = Err("ExpectedMixinArgument")
            ELSE /\ ret.ok
                 /\ DOMAIN ret.value = {ps[i].name : i \in 1..Len(ps)}
                 /\ Cardinality(DOMAIN ret.value) = Len(ps)
                 /\ \A i \in 1..Len(ps) :
                       ret.value[ps[i].name] = StringPart(Precedence(ps, as, i).v)

\* C9: when the argument at list index i is a named argument for another
\* parameter, and no argument names the i-th parameter, the i-th parameter
\* takes its default, not that argument's value.
C9_NamedArgumentNotPositional ==
    (call.fn = "collate_mixin_args" /\ ret.ok) =>
        \A i \in 1..Len(call.parameters) :
            LET p == call.parameters[i]
                as == call.arguments
            IN  ( /\ i <= Len(as)
                  /\ as[i].name.some
                  /\ as[i].name.v # p.name
                  /\ NamedFor(as, p.name) = {}
                  /\ p.default.some )
                => ret.value[p.name] = StringPart(p.default.v)

-----------------------------------------------------------------------------
(* The optimizer and selector distribution applied to sampled rule trees   *)

MaxDepth == 3   \* rules nested below the rule handed to optimize

Div == <<"d", "i", "v">>
Span == <<"s", "p", "a", "n">>
Img == <<"i", "m", "g">>
Strong == <<"s", "t", "r", "o", "n", "g">>
Btn == <<".", "b", "t", "n">>
AmpHover == <<"&", ":", "h", "o", "v", "e", "r">>
AmpPlusAmp == <<"&", " ", "+", " ", "&">>

ColorBlue == Property("color", "blue")
FontWeight == Property("font-weight", "bold")

PropertyLists == {<<>>, <<ColorBlue>>, <<ColorBlue, FontWeight>>}

SelectorLists ==
    {<<Lexeme(Div, Some(0))>>,
     <<Lexeme(Span, Some(0)), Lexeme(Img, Some(6))>>,
     <<Lexeme(AmpHover, Some(6))>>}

Sibling == Rule(<<Lexeme(Strong, Some(6))>>, <<FontWeight>>)

\* The bodies that hold the rule r: alone, with a property before or after
\* it, or followed by a sibling rule.
Around(r) == {<<r>>, <<ColorBlue, r>>, <<r, ColorBlue>>, <<r, Sibling>>}

RECURSIVE RuleTrees(_)
RuleTrees(depth) ==
    {Rule(sel, body) :
        sel \in SelectorLists,
        body \in IF depth = 0 THEN PropertyLists
                 ELSE PropertyLists \cup UNION {Around(r) : r \in RuleTrees(depth - 1)}}

ParentChains ==
    {<<>>, Div, Btn, <<"a", ",", "b">>, <<"a", ",", " ", "b">>, <<" ", "a", " ">>,
     <<"a", ",", ",", "b">>}

DistributedSelectors ==
    SelectorLists \cup
    {<<Lexeme(Btn, Some(0))>>, <<Lexeme(Strong, None)>>, <<Lexeme(Img, None), Lexeme(AmpHover, None)>>,
     <<Lexeme(AmpPlusAmp, None)>>}

Separators == {<<",", " ">>, <<",">>}

Optimize ==
    /\ call = Idle
    /\ \E self \in RuleTrees(MaxDepth) :
          /\ call' = [fn |-> "optimize", self |-> self]
          /\ ret' = optimize(self)
    /\ UNCHANGED subVars

CollapseWithParentSelectors ==
    /\ call = Idle
    /\ \E self \in RuleTrees(1), parents \in DistributedSelectors :
          /\ call' = [fn |-> "collapse_with_parent_selectors", self |-> self,
                      parents |-> parents]
          /\ ret' = collapse_with_parent_selectors(self, parents)
    /\ UNCHANGED subVars

SelectorDistribution ==
    /\ call = Idle
    /\ \E selectors \in DistributedSelectors, parents \in ParentChains,
          separator \in Separators :
          /\ call' = [fn |-> "selector_distribution", self |-> Rule(selectors, <<>>),
                      parents |-> parents, separator |-> separator]
          /\ ret' = selector_distribution(Rule(selectors, <<>>), parents, separator)
    /\ UNCHANGED subVars

NextRuleOps ==
    \/ Optimize
    \/ CollapseWithParentSelectors
    \/ SelectorDistribution

SpecRule == Init /\ [][NextRuleOps]_vars

HasDirectProperty(rule) ==
    \E i \in 1..Len(rule.children) : rule.children[i].type = "Property"

\* C3: every rule in the list SassRule::optimize returns has at least one
\* direct property child; a rule whose body holds only nested rules (or
\* nothing) is never in the output.
C3_OptimizedRulesHaveProperties ==
    call.fn = "optimize" => \A i \in 1..Len(ret) : HasDirectProperty(ret[i])

\* Two property-less ancestors in a row have been collapsed into a rule that
\* is emitted.
C3_Witness ==
    /\ call.fn = "optimize"
    /\ ~HasDirectProperty(call.self)
    /\ \E i \in 1..Len(call.self.children) :
          /\ call.self.children[i].type = "Rule"
          /\ ~HasDirectProperty(call.self.children[i])
    /\ Len(ret) >= 1

\* The selector the collapse of parent p into child c is claimed to form.
CollapsedToken(p, c) ==
    IF Contains(c, "&") THEN Replace(c, "&", Trim(p)) ELSE p \o <<" ">> \o c

\* C4: collapsing a parent into a child rule that has properties gives one
\* rule whose selectors are, parent-major, `parent child` for a child without
\* `&` and the child with every `&` replaced by the trimmed parent for a
\* child with `&` (`.btn { &:hover {..} }` gives `.btn:hover`).
C4_CollapseSubstitutesParentReference ==
    (call.fn = "collapse_with_parent_selectors" /\ HasDirectProperty(call.self)) =>
        /\ Len(ret) = 1
        /\ ret[1].children = call.self.children
        /\ LET n == Len(call.self.selectors) IN
           /\ Len(ret[1].selectors) = Len(call.parents) * n
           /\ \A i \in 1..Len(call.parents), j \in 1..n :
                 ret[1].selectors[(i - 1) * n + j].token =
                     CollapsedToken(call.parents[i].token, call.self.selectors[j].token)

\* The entry selector distribution is claimed to form for one pair.
DistributedEntry(segment, child) ==
    IF Contains(child, "&") THEN Replace(child, "&", Trim(segment))
    ELSE Trim(segment) \o <<" ">> \o child

\* C5: with an empty ancestor chain the result is the selectors joined by the
\* separator; otherwise it is, joined by the separator, one entry per
\* (segment of the chain split on `,`, child selector) pair, segment-major:
\* `trimmed segment` + " " + child, or the child with every `&` replaced by
\* the trimmed segment.
C5_SelectorDistribution ==
    call.fn = "selector_distribution" =>
        LET sels == call.self.selectors
            m == Len(sels)
            segments == Split(call.parents, ",")
        IN  IF call.parents = <<>>
            THEN ret = Join([i \in 1..m |-> sels[i].token], call.separator)
            ELSE ret = Join([k \in 1..(Len(segments) * m) |->
                                DistributedEntry(segments[((k - 1) \div m) + 1],
                                                 sels[((k - 1) % m) + 1].token)],
                            call.separator)

\* Two ancestor segments, one with a space to trim, distributed over a child
\* without `&` and a child with `&`.
C5_Witness ==
    /\ call.fn = "selector_distribution"
    /\ call.parents = <<"a", ",", " ", "b">>
    /\ call.separator = <<",", " ">>
    /\ call.self.selectors = <<Lexeme(Img, None), Lexeme(AmpHover, None)>>
    /\ ret = <<"a", " ", "i", "m", "g", ",", " ",
               "a", ":", "h", "o", "v", "e", "r", ",", " ",
               "b", " ", "i", "m", "g", ",", " ",
               "b", ":", "h", "o", "v", "e", "r">>

\* Every rule of a list, and every rule below it at any depth, has a direct
\* property.
RECURSIVE NoRuleWithoutProperty(_)
NoRuleWithoutProperty(rules) ==
    \A i \in 1..Len(rules) :
        /\ HasDirectProperty(rules[i])
        /\ NoRuleWithoutProperty(child_rules(rules[i]))

\* C25: in what optimize returns no rule without a direct property remains at
\* any depth: the child rules of a rule that is kept for its property are
\* optimized too.
C25_KeptRulesAreOptimizedBelow ==
    call.fn = "optimize" => NoRuleWithoutProperty(ret)

Tokens(selectors) == [k \in 1..Len(selectors) |-> selectors[k].token]

\* Ancestor-major product of the selectors collected so far with a rule's own.
Combine(prefixes, tokens) ==
    Flatten([i \in 1..Len(prefixes) |->
                [j \in 1..Len(tokens) |-> prefixes[i] \o <<" ">> \o tokens[j]]])

\* The properties of a tree in the order of the text, each with the selectors
\* of the rule that holds it; the root goes by the given selectors.
RECURSIVE OwnersBelow(_, _)
OwnersBelow(rule, tokens) ==
    Flatten([k \in 1..Len(rule.children) |->
                IF rule.children[k].type = "Property"
                THEN <<[property |-> rule.children[k], selectors |-> tokens]>>
                ELSE OwnersBelow(rule.children[k], Tokens(rule.children[k].selectors))])

\* The same list as the claim has it after optimize: the selectors of a rule
\* below property-less ancestors are the product of theirs with its own, and
\* everything below a rule with a property stays as it is.
RECURSIVE ExpectedOwners(_, _)
ExpectedOwners(rule, tokens) ==
    IF has_properties(rule) THEN OwnersBelow(rule, tokens)
    ELSE LET crs == child_rules(rule) IN
         Flatten([k \in 1..Len(crs) |->
                     ExpectedOwners(crs[k], Combine(tokens, Tokens(crs[k].selectors)))])

\* C26: over the whole output of optimize every property of the input tree
\* appears exactly once, in the order of the input, under a rule whose
\* selectors are the ancestor-major product of the selectors of its collapsed
\* ancestors with its own (its own alone below a kept rule); and no rule of
\* the output has an empty selector list.
C26_OptimizeConservesProperties ==
    call.fn = "optimize" =>
        /\ Flatten([k \in 1..Len(ret) |-> OwnersBelow(ret[k], Tokens(ret[k].selectors))])
              = ExpectedOwners(call.self, Tokens(call.self.selectors))
        /\ \A k \in 1..Len(ret) : ret[k].selectors # <<>>

\* Two selectors under two collapsed selectors have become four.
C26_Witness ==
    /\ call.fn = "optimize"
    /\ call.self = Rule(<<Lexeme(Span, Some(0)), Lexeme(Img, Some(6))>>,
                        <<Rule(<<Lexeme(Span, Some(0)), Lexeme(Img, Some(6))>>,
                               <<ColorBlue, FontWeight>>)>>)
    /\ Len(ret) = 1
    /\ Tokens(ret[1].selectors) = <<Span \o <<" ">> \o Span, Span \o <<" ">> \o Img,
                                    Img \o <<" ">> \o Span, Img \o <<" ">> \o Img>>
    /\ ret[1].children = <<ColorBlue, FontWeight>>

-----------------------------------------------------------------------------
(* Colour arithmetic: chains of apply_math and combine_colors starting     *)
(* from sampled colours.                                                   *)

MaxChain == 2       \* operations applied one after the other
MaxOperand == 65535 \* largest channel magnitude an operation is applied to

SampleColors ==
    {from_rgb(0, 0, 0), from_rgb(255, 0, 0), from_rgb(1, 2, 3), from_rgb(4, 5, 6),
     from_rgb(255, 255, 255)}

SampleScalars == {-1, 0, 1, 2, 256}

Channels(color) == {color.red, color.green, color.blue}

\* The colour an operation can be applied to: a sampled one, or the result
\* of the previous operation of the chain.
Operands ==
    IF call = Idle THEN SampleColors
    ELSE IF call.fn \in {"apply_math", "combine_colors"} /\ call.n < MaxChain
            /\ \A ch \in Channels(ret.value) : ch \in (-MaxOperand)..MaxOperand
         THEN {ret.value}
         ELSE {}

ChainLength == IF call = Idle THEN 0 ELSE call.n

ApplyMath ==
    /\ \E self \in Operands, op \in Ops, scalar \in SampleScalars :
          LET nv == NumberValue_from_scalar(scalar) IN
          \E res \in apply_math(self, op, nv) :
              /\ call' = [fn |-> "apply_math", self |-> self, op |-> op, nv |-> nv,
                          n |-> ChainLength + 1]
              /\ ret' = res
    /\ UNCHANGED subVars

CombineColors ==
    /\ \E self \in Operands, op \in Ops, c \in SampleColors :
          \E res \in combine_colors(self, op, c) :
              /\ call' = [fn |-> "combine_colors", self |-> self, op |-> op, c |-> c,
                          n |-> ChainLength + 1]
              /\ ret' = res
    /\ UNCHANGED subVars

HexLengths == {2, 3, 6}
HexAlphabet == {"a", "1", "F", "g", "+"}

HexTexts ==
    {mark \o digits :
        mark \in {<<"#">>, <<"x">>, <<>>},
        digits \in UNION {[1..n -> HexAlphabet] : n \in HexLengths}}

FromHex ==
    /\ call = Idle
    /\ \E hex \in HexTexts :
          /\ call' = [fn |-> "from_hex", hex |-> hex]
          /\ ret' = from_hex(hex)
    /\ UNCHANGED subVars

NextColor ==
    \/ ApplyMath
    \/ CombineColors
    \/ FromHex

SpecColor == Init /\ [][NextColor]_vars

InRange(color) == \A ch \in Channels(color) : ch \in 0..MaxChannel

Clamp(x) == IF x < 0 THEN 0 ELSE IF x > MaxChannel THEN MaxChannel ELSE x

\* C6: for a colour with channels in [0,255], apply_math returns a colour
\* whose every channel is the operator applied to that channel and the
\* scalar, clamped into [0,255]: never above 255 and never below 0.
C6_ColorNumberClamped ==
    (call # Idle /\ call.fn = "apply_math" /\ InRange(call.self)) =>
        /\ ret.ok
        /\ InRange(ret.value)
        /\ LET finite == call.op \in {"Plus", "Minus", "Star"} \/ call.nv.scalar # 0
               exact(ch) == CHOOSE v \in MathAsI32(call.op, ch, call.nv.scalar) : TRUE
           IN  finite =>
                   /\ ret.value.red = Clamp(exact(call.self.red))
                   /\ ret.value.green = Clamp(exact(call.self.green))
                   /\ ret.value.blue = Clamp(exact(call.self.blue))

\* C7: for two colours with channels in [0,255], combine_colors returns a
\* colour whose three channels all lie in [0,255]; so a chain of colour
\* arithmetic never holds a channel outside [0,255].
C7_ColorColorClamped ==
    (call # Idle /\ call.fn = "combine_colors" /\ InRange(call.self) /\ InRange(call.c)) =>
        (ret.ok /\ InRange(ret.value))

\* The repository's own test: #ff0000 + 1 displays as #ff0101.
OverflowTestReached ==
    /\ call # Idle
    /\ call.fn = "apply_math"
    /\ call.self = from_rgb(255, 0, 0)
    /\ call.op = "Plus"
    /\ call.nv.scalar = 1
    /\ Display(ret.value) = <<"#", "f", "f", "0", "1", "0", "1">>

\* `#` followed by 3 or 6 hex digits.
WellFormedHex(hex) ==
    /\ Len(hex) \in {4, 7}
    /\ hex[1] = "#"
    /\ \A i \in 2..Len(hex) : hex[i] \in DOMAIN HexValues

\* Each digit of a 3-digit colour written twice.
Doubled(hex) == <<"#", hex[2], hex[2], hex[3], hex[3], hex[4], hex[4]>>

\* C14: from_hex never aborts; it returns a colour exactly for `#` followed by
\* 3 or 6 hex digits and the error InvalidColor for every other text; and a
\* 3-digit colour has the channels of the 6-digit colour with each digit
\* written twice (digit times 17).
C14_FromHexAcceptsExactly ==
    (call # Idle /\ call.fn = "from_hex") =>
        /\ ret # Panic
        /\ IF WellFormedHex(call.hex)
           THEN /\ ret.ok
                /\ Len(call.hex) = 4 =>
                      /\ ret.value.red = 17 * HexValues[call.hex[2]]
                      /\ LET long == from_hex(Doubled(call.hex)).value IN
                         /\ ret.value.red = long.red
                         /\ ret.value.green = long.green
                         /\ ret.value.blue = long.blue
           ELSE ret = Err("InvalidColor")

-----------------------------------------------------------------------------
(* The source tokenizer.  The source text is a sequence of one-character   *)
(* strings and offsets count from 0 as in the code.  The Toker helpers     *)
(* (eat, next_name, next_value, tokenize_list, the scans) are the          *)
(* primitives the tokenizer is written in.                                 *)

Least(S) == CHOOSE x \in S : \A y \in S : x <= y

NameChars == {"a", "b", "m", "x", "$", "-"}

ChildRule(s, c) == [type |-> "ChildRule", selectors |-> s, children |-> c]
SassVariable(n, v) == [type |-> "Variable", name |-> n, value |-> v]
SassMixin(n, a, b) == [type |-> "Mixin", name |-> n, arguments |-> a, body |-> b]
SassMixinCall(n, a) == [type |-> "MixinCall", name |-> n, arguments |-> a]
TopLevelRule(r) == [type |-> "Rule", selectors |-> r.selectors, children |-> r.children]

limit(inner_str) == Len(inner_str)
at_eof(inner_str, offset) == offset >= limit(inner_str)

\* The byte at an offset; "" stands for "no byte" past the end.
byte_at(inner_str, i) == IF i < limit(inner_str) THEN inner_str[i + 1] ELSE ""
curr_byte(inner_str, offset) == byte_at(inner_str, offset)
next_byte(inner_str, offset) == byte_at(inner_str, offset + 1)

\* How many bytes from i on lie in the set valid, up to the first that does
\* not or to the end.
scan_while_or_end(inner_str, i, valid) ==
    LET stops == {k \in i..(limit(inner_str) - 1) : inner_str[k + 1] \notin valid} IN
    IF stops = {} THEN (IF i < limit(inner_str) THEN limit(inner_str) - i ELSE 0)
    ELSE Least(stops) - i

skip_leading_whitespace(inner_str, offset) ==
    offset + scan_while_or_end(inner_str, offset, {" "})

Slice(inner_str, from, to) == SubSeq(inner_str, from + 1, to)

\* eat: the expected text is consumed if it stands at the offset; otherwise
\* the offset stays and the error is UnexpectedEof when the source ended
\* first, TokenizerError when another byte was seen.
eat(inner_str, offset, expected) ==
    LET n == Len(expected)
        seen == Slice(inner_str, offset, Min(offset + n, limit(inner_str)))
    IN  IF seen = expected THEN [ok |-> TRUE, offset |-> offset + n]
        ELSE IF seen = SubSeq(expected, 1, Len(seen))
             THEN [ok |-> FALSE, kind |-> "UnexpectedEof", offset |-> offset]
             ELSE [ok |-> FALSE, kind |-> "TokenizerError", offset |-> offset]

\* next_name and next_value: the run of name bytes, resp. the bytes up to the
\* next semicolon, from the offset on; UnexpectedEof at the end of the source.
next_name(inner_str, offset) ==
    IF at_eof(inner_str, offset)
    THEN [ok |-> FALSE, kind |-> "UnexpectedEof", offset |-> limit(inner_str)]
    ELSE LET i == offset + scan_while_or_end(inner_str, offset, NameChars) IN
         [ok |-> TRUE, value |-> Slice(inner_str, offset, i), offset |-> i]

next_value(inner_str, offset) ==
    IF at_eof(inner_str, offset)
    THEN [ok |-> FALSE, kind |-> "UnexpectedEof", offset |-> limit(inner_str)]
    ELSE LET stops == {k \in offset..(limit(inner_str) - 1) : inner_str[k + 1] = ";"}
             i == IF stops = {} THEN limit(inner_str) ELSE Least(stops)
         IN  [ok |-> TRUE, value |-> Slice(inner_str, offset, i), offset |-> i]

\* tokenize_list: the trimmed pieces between separators up to the end byte,
\* which is consumed; UnexpectedEof when the end byte does not come.
tokenize_list(inner_str, offset, separator, end) ==
    LET stops == {k \in offset..(limit(inner_str) - 1) : inner_str[k + 1] = end} IN
    IF stops = {}
    THEN [ok |-> FALSE, kind |-> "UnexpectedEof", offset |-> limit(inner_str)]
    ELSE LET e == Least(stops)
             pieces == Split(Slice(inner_str, offset, e), separator)
             trimmed == [k \in 1..Len(pieces) |-> Trim(pieces[k])]
         IN  [ok |-> TRUE,
              value |-> IF trimmed = <<<<>>>> THEN <<>> ELSE trimmed,
              offset |-> e + 1]

\* What a tokenizer method hands back: its result and the tokenizer after it.
Step(res, tk) == [res |-> res, tk |-> tk]

InnerTokenizer(offset, state) == [offset |-> offset, state |-> state]

\* next_comment, of both tokenizers: the comment ends at the first "*/" at or
\* after the third byte.
next_comment(inner_str, tk) ==
    LET comment_body_beginning == tk.offset
        ends == {i \in (comment_body_beginning + 2)..(limit(inner_str) - 2) :
                    inner_str[i + 1] = "*" /\ inner_str[i + 2] = "/"}
    IN  IF ends = {}
        THEN Step(Err("UnexpectedEof"), [tk EXCEPT !.offset = limit(inner_str)])
        ELSE LET i == Least(ends) IN
             Step(Ok(Some(Comment(Slice(inner_str, comment_body_beginning, i + 2)))),
                  [tk EXCEPT !.offset = i + 2])

next_mixin_call(inner_str, tk) ==
    LET name_beginning == skip_leading_whitespace(inner_str, tk.offset)
        name_end == name_beginning + scan_while_or_end(inner_str, name_beginning, NameChars)
        name == Slice(inner_str, name_beginning, name_end)
        paren == eat(inner_str, name_end, <<"(">>)
        arguments == IF paren.ok THEN tokenize_list(inner_str, paren.offset, ",", ")")
                     ELSE [ok |-> TRUE, value |-> <<>>, offset |-> name_end]
    IN  IF ~arguments.ok
        THEN Step(Err(arguments.kind), [tk EXCEPT !.offset = arguments.offset])
        ELSE LET semi == eat(inner_str, arguments.offset, <<";">>) IN
             IF ~semi.ok THEN Step(Err(semi.kind), [tk EXCEPT !.offset = semi.offset])
             ELSE Step(Ok(Some(SassMixinCall(name, arguments.value))),
                       [tk EXCEPT !.offset = semi.offset])

selector_list(inner_str, tk) ==
    LET selectors == tokenize_list(inner_str, tk.offset, ",", "{") IN
    IF ~selectors.ok
    THEN Step(Err(selectors.kind), [tk EXCEPT !.offset = selectors.offset])
    ELSE Step(Ok(selectors.value), InnerTokenizer(selectors.offset, "InProperties"))

\* name ':' value ';' from the offset of the name on (the tail of
\* next_property and the whole of next_variable).
name_value(inner_str, tk, prop_name) ==
    LET colon == eat(inner_str, prop_name.offset, <<":">>) IN
    IF ~colon.ok THEN Step(Err(colon.kind), [tk EXCEPT !.offset = colon.offset])
    ELSE LET prop_value == next_value(inner_str,
                               skip_leading_whitespace(inner_str, colon.offset)) IN
         IF ~prop_value.ok
         THEN Step(Err(prop_value.kind), [tk EXCEPT !.offset = prop_value.offset])
         ELSE LET semi == eat(inner_str, prop_value.offset, <<";">>) IN
              IF ~semi.ok THEN Step(Err(semi.kind), [tk EXCEPT !.offset = semi.offset])
              ELSE LET after == [tk EXCEPT !.offset =
                                    skip_leading_whitespace(inner_str, semi.offset)] IN
                   \* prop_name.as_bytes()[0] aborts on an empty name
                   IF prop_name.value = <<>> THEN Step(Panic, after)
                   ELSE IF Head(prop_name.value) = "$"
                   THEN Step(Ok(Some(SassVariable(prop_name.value, prop_value.value))), after)
                   ELSE Step(Ok(Some(UnevaluatedProperty(prop_name.value,
                                                         prop_value.value))), after)

RECURSIVE Inner_next(_, _)

\* while let Some(Ok(e)) = tokenizer.next() { children.push(e) }: the
\* children collected, the tokenizer afterwards, and the item that ended the
\* loop (None or Some(Err(e))).
RECURSIVE children_while_ok(_, _, _)

\* One round of the loop, r being what next() returned.
push_or_stop(inner_str, children, r) ==
    IF r.res = Panic THEN [children |-> children, tk |-> r.tk, last |-> Panic]
    ELSE IF r.res.some /\ r.res.v.ok
    THEN children_while_ok(inner_str, r.tk, Append(children, r.res.v.value))
    ELSE [children |-> children, tk |-> r.tk, last |-> r.res]

children_while_ok(inner_str, tk, children) ==
    push_or_stop(inner_str, children, Inner_next(inner_str, tk))

\* The end of next_rule: inner and rest are the two child loops.
close_rule(inner_str, selectors, inner, rest) ==
    LET closing == eat(inner_str, rest.tk.offset, <<"}">>) IN
    IF inner.last = Panic THEN Step(Panic, inner.tk)
    ELSE IF rest.last = Panic THEN Step(Panic, rest.tk)
    ELSE IF ~closing.ok THEN Step(Err(closing.kind), rest.tk)
    ELSE Step(Ok(Some(ChildRule(selectors, rest.children))),
              [rest.tk EXCEPT !.offset = closing.offset])

\* The second loop runs on the tokenizer itself, from where the first ended.
rule_children(inner_str, selectors, inner) ==
    close_rule(inner_str, selectors, inner,
               children_while_ok(inner_str, InnerTokenizer(inner.tk.offset, "InProperties"),
                                 inner.children))

\* The first loop runs on a fresh inner tokenizer in state InProperties.
rule_after_selectors(inner_str, selectors) ==
    IF ~selectors.res.ok THEN selectors
    ELSE rule_children(inner_str, selectors.res.value,
             children_while_ok(inner_str,
                               InnerTokenizer(selectors.tk.offset, "InProperties"), <<>>))

Inner_next_rule(inner_str, tk) ==
    rule_after_selectors(inner_str, selector_list(inner_str, tk))

\* return match self.next() { Some(Ok(e)) => Ok(Some(e)), Some(Err(e)) => Err(e),
\*                            None => Ok(None) }
unwrap_item(r) ==
    IF r.res = Panic THEN r
    ELSE IF r.res.some THEN Step(IF r.res.v.ok THEN Ok(Some(r.res.v.value)) ELSE r.res.v, r.tk)
    ELSE Step(Ok(None), r.tk)

\* Mutant: the offset saved before the name is not restored.
Inner_next_property_NoRewind(inner_str, tk) ==
    LET offset == skip_leading_whitespace(inner_str, tk.offset)
        here == [tk EXCEPT !.offset = offset]
        c == curr_byte(inner_str, offset)
        d == next_byte(inner_str, offset)
    IN  IF at_eof(inner_str, offset) \/ c = "}" THEN Step(Ok(None), here)
        ELSE IF c = "/" /\ d = "*" THEN Step(Ok(None), [here EXCEPT !.state = "InComment"])
        ELSE LET include == eat(inner_str, offset, <<"@", "i", "n", "c", "l", "u", "d", "e", " ">>)
                 extend == eat(inner_str, offset, <<"@", "e", "x", "t", "e", "n", "d", " ">>)
             IN  IF include.ok
                 THEN next_mixin_call(inner_str, [here EXCEPT !.offset = include.offset])
                 ELSE IF extend.ok
                 THEN next_mixin_call(inner_str, [here EXCEPT !.offset = extend.offset])
                 ELSE LET prop_name == next_name(inner_str, offset) IN
                      IF ~prop_name.ok
                      THEN Step(Err(prop_name.kind), [here EXCEPT !.offset = prop_name.offset])
                      ELSE IF curr_byte(inner_str, prop_name.offset) = "{"
                      THEN unwrap_item(Inner_next(inner_str,
                                                  InnerTokenizer(prop_name.offset, "InSelectors")))
                      ELSE name_value(inner_str, here, prop_name)

Inner_next_property(inner_str, tk) ==
    LET offset == skip_leading_whitespace(inner_str, tk.offset)
        here == [tk EXCEPT !.offset = offset]
        c == curr_byte(inner_str, offset)
        d == next_byte(inner_str, offset)
    IN  IF at_eof(inner_str, offset) \/ c = "}" THEN Step(Ok(None), here)
        ELSE IF c = "/" /\ d = "*" THEN Step(Ok(None), [here EXCEPT !.state = "InComment"])
        ELSE LET include == eat(inner_str, offset, <<"@", "i", "n", "c", "l", "u", "d", "e", " ">>)
                 extend == eat(inner_str, offset, <<"@", "e", "x", "t", "e", "n", "d", " ">>)
             IN  IF include.ok
                 THEN next_mixin_call(inner_str, [here EXCEPT !.offset = include.offset])
                 ELSE IF extend.ok
                 THEN next_mixin_call(inner_str, [here EXCEPT !.offset = extend.offset])
                 ELSE LET prop_name == next_name(inner_str, offset) IN
                      IF ~prop_name.ok
                      THEN Step(Err(prop_name.kind), [here EXCEPT !.offset = prop_name.offset])
                      ELSE IF curr_byte(inner_str, prop_name.offset) = "{"
                      THEN unwrap_item(Inner_next(inner_str,
                                                  InnerTokenizer(offset, "InSelectors")))
                      ELSE name_value(inner_str, here, prop_name)

Inner_start_something(inner_str, tk) ==
    LET offset == skip_leading_whitespace(inner_str, tk.offset)
        here == [tk EXCEPT !.offset = offset]
        c == curr_byte(inner_str, offset)
    IN  IF at_eof(inner_str, offset) \/ c = "}" THEN Step(Ok(None), here)
        ELSE IF c = "/" /\ offset + 1 < limit(inner_str) /\ next_byte(inner_str, offset) = "*"
        THEN next_comment(inner_str, here)
        ELSE CASE tk.state = "InProperties" -> Inner_next_property(inner_str, here)
               [] tk.state = "InSelectors" -> Inner_next_rule(inner_str, here)
               [] OTHER -> Step(Panic, here)

\* Iterator::next of both tokenizers wraps start_something.
IteratorItem(r) ==
    IF r.res = Panic THEN r
    ELSE IF ~r.res.ok THEN Step(Some(r.res), r.tk)
    ELSE IF r.res.value.some THEN Step(Some(Ok(r.res.value.v)), r.tk)
    ELSE Step(None, r.tk)

Inner_next(inner_str, tk) ==
    IF at_eof(inner_str, tk.offset) THEN Step(None, tk)
    ELSE IteratorItem(Inner_start_something(inner_str, tk))

Tokenizer(offset) == [offset |-> offset]

next_variable(inner_str, tk) ==
    LET var_name == next_name(inner_str, tk.offset) IN
    IF ~var_name.ok THEN Step(Err(var_name.kind), [tk EXCEPT !.offset = var_name.offset])
    ELSE name_value(inner_str, tk, var_name)

body_scan(inner_str, i) ==
    scan_while_or_end(inner_str, i, {inner_str[k] : k \in 1..Len(inner_str)} \ {"}"})

next_mixin(inner_str, tk) ==
    LET name_beginning == tk.offset IN
    IF ~(name_beginning < limit(inner_str))
    THEN Step(Err("UnexpectedEof"), [tk EXCEPT !.offset = limit(inner_str)])
    ELSE LET name_end == name_beginning
                            + scan_while_or_end(inner_str, name_beginning, NameChars)
             paren == eat(inner_str, name_end, <<"(">>)
         IN  IF ~paren.ok THEN Step(Err(paren.kind), [tk EXCEPT !.offset = paren.offset])
             ELSE LET arguments == tokenize_list(inner_str, paren.offset, ",", ")") IN
             IF ~arguments.ok
             THEN Step(Err(arguments.kind), [tk EXCEPT !.offset = arguments.offset])
             ELSE LET brace == eat(inner_str,
                                   skip_leading_whitespace(inner_str, arguments.offset),
                                   <<"{">>) IN
             IF ~brace.ok THEN Step(Err(brace.kind), [tk EXCEPT !.offset = brace.offset])
             ELSE LET body_beginning == skip_leading_whitespace(inner_str, brace.offset)
                      body_end == body_beginning + body_scan(inner_str, body_beginning)
                      closing == eat(inner_str, body_end, <<"}">>)
                  IN  IF ~closing.ok
                      THEN Step(Err(closing.kind), [tk EXCEPT !.offset = closing.offset])
                      ELSE Step(Ok(Some(SassMixin(
                                    Slice(inner_str, name_beginning, name_end),
                                    arguments.value,
                                    Slice(inner_str, body_beginning, body_end)))),
                                [tk EXCEPT !.offset = closing.offset])

\* Tokenizer::next_mixin_call differs from the inner one only at the end of
\* the source.
Tokenizer_next_mixin_call(inner_str, tk) ==
    LET name_beginning == skip_leading_whitespace(inner_str, tk.offset) IN
    IF ~(name_beginning < limit(inner_str))
    THEN Step(Err("UnexpectedEof"), [tk EXCEPT !.offset = limit(inner_str)])
    ELSE next_mixin_call(inner_str, tk)

\* Mutant: the offset the inner tokenizer reached is not taken over.
top_level_rule_KeepOffset(tk, ret_) ==
    IF ret_.res = Panic THEN Step(Panic, tk)
    ELSE IF ret_.res.ok /\ ret_.res.value.some /\ ret_.res.value.v.type = "ChildRule"
    THEN Step(Ok(Some(TopLevelRule(ret_.res.value.v))), tk)
    ELSE Step(Err("TokenizerError"), tk)

\* Whatever the inner tokenizer returns that is not a rule becomes a
\* TokenizerError, and the offset then stays where the rule began.
top_level_rule(tk, ret_) ==
    IF ret_.res = Panic THEN Step(Panic, tk)
    ELSE IF ret_.res.ok /\ ret_.res.value.some /\ ret_.res.value.v.type = "ChildRule"
    THEN Step(Ok(Some(TopLevelRule(ret_.res.value.v))), [tk EXCEPT !.offset = ret_.tk.offset])
    ELSE Step(Err("TokenizerError"), tk)

Tokenizer_start_something(inner_str, tk) ==
    LET offset == skip_leading_whitespace(inner_str, tk.offset)
        here == [tk EXCEPT !.offset = offset]
        c == curr_byte(inner_str, offset)
        mixin == eat(inner_str, offset, <<"@", "m", "i", "x", "i", "n", " ">>)
        include == eat(inner_str, offset, <<"@", "i", "n", "c", "l", "u", "d", "e", " ">>)
    IN  IF at_eof(inner_str, offset) THEN Step(Ok(None), here)
        ELSE IF c = "$" THEN next_variable(inner_str, here)
        ELSE IF mixin.ok THEN next_mixin(inner_str, [here EXCEPT !.offset = mixin.offset])
        ELSE IF include.ok
        THEN Tokenizer_next_mixin_call(inner_str, [here EXCEPT !.offset = include.offset])
        ELSE IF c = "/" /\ offset + 1 < limit(inner_str) /\ next_byte(inner_str, offset) = "*"
        THEN next_comment(inner_str, here)
        ELSE top_level_rule(here, Inner_next_rule(inner_str,
                                                  InnerTokenizer(offset, "InSelectors")))

Tokenizer_next(inner_str, tk) ==
    IF at_eof(inner_str, tk.offset) THEN Step(None, tk)
    ELSE IteratorItem(Tokenizer_start_something(inner_str, tk))

-----------------------------------------------------------------------------
(* Source texts handed to the tokenizer: rules whose bodies are runs of a   *)
(* few children, well-formed or not, and the other top-level productions.  *)

MaxChildren == 2    \* children written in the body of a sampled rule

PropertyText == <<"b", ":", "1", ";">>
StrayName == <<"x", " ">>
NoSemicolon == <<"b", ":", "1">>
CommentText == <<"/", "*", "x", "*", "/">>
OpenComment == <<"/", "*", "x">>
NestedRuleText == <<"a", "{", "b", ":", "1", ";", "}">>
IncludeText == <<"@", "i", "n", "c", "l", "u", "d", "e", " ", "m", ";">>
IncludeNoSemicolon == <<"@", "i", "n", "c", "l", "u", "d", "e", " ", "m">>

BodyPieces ==
    {PropertyText, StrayName, NoSemicolon, CommentText, OpenComment, NestedRuleText,
     IncludeText, IncludeNoSemicolon}

RECURSIVE BodyTexts(_)
BodyTexts(n) ==
    IF n = 0 THEN {<<>>}
    ELSE BodyTexts(n - 1) \cup {p \o b : p \in BodyPieces, b \in BodyTexts(n - 1)}

RuleTexts ==
    {<<"a", "{">> \o b \o <<"}">> : b \in BodyTexts(MaxChildren)}
        \cup {<<"a", "{">> \o b : b \in BodyTexts(1)}

FlatMixin == <<"@", "m", "i", "x", "i", "n", " ", "m", "(", ")", "{", "b", ":", "1", ";", "}">>
NestedMixin == <<"@", "m", "i", "x", "i", "n", " ", "m", "(", "$", "a", ")", "{", "a", "{", "b", ":", "$", "a", ";", "}", "}">>
OpenMixin == <<"@", "m", "i", "x", "i", "n", " ", "m", "(", ")", "{", "b", ":", "1", ";">>

MixinTexts == {FlatMixin, NestedMixin, OpenMixin}

TopLevelTexts ==
    RuleTexts \cup MixinTexts \cup {<<"$", "a", ":", "1", ";">>, CommentText, IncludeText}

Sources ==
    {before \o item \o after :
        before \in {<<>>, <<"$", "a", ":", "1", ";", " ">>},
        item \in TopLevelTexts,
        after \in {<<>>, <<" ", "b", "{", "}">>}}

\* An item the caller's loop takes as an event: Some(Ok(e)).
Pushed(item) == item # Panic /\ item.some /\ item.v.ok

\* pulled counts the events the caller has got from the tokenizer so far.
TokenizerNew ==
    /\ call = Idle
    /\ \E inner_str \in Sources :
          call' = [fn |-> "Tokenizer", inner_str |-> inner_str, from |-> 0, offset |-> 0,
                   pulled |-> 0]
    /\ ret' = Idle
    /\ UNCHANGED subVars

TokenizerNext ==
    /\ call # Idle
    /\ call.fn = "Tokenizer"
    /\ ret # Panic
    /\ \E r \in {Tokenizer_next(call.inner_str, Tokenizer(call.offset))} :
          /\ call' = [call EXCEPT !.from = call.offset, !.offset = r.tk.offset,
                                  !.pulled = IF Pushed(r.res) THEN @ + 1 ELSE @]
          /\ ret' = r.res
    /\ UNCHANGED subVars

InnerNextRule ==
    /\ call = Idle
    /\ \E inner_str \in RuleTexts :
          /\ call' = [fn |-> "next_rule", inner_str |-> inner_str]
          /\ ret' = Inner_next_rule(inner_str, InnerTokenizer(0, "InSelectors"))
    /\ UNCHANGED subVars

\* The inner tokenizer of a rule, standing behind the selectors in state
\* InProperties, pulled the way next_rule pulls it: until the second item
\* that is not Some(Ok(e)).
BodyOffset == Len(<<"a", "{">>)

InnerTokenizerNew ==
    /\ call = Idle
    /\ \E inner_str \in RuleTexts :
          call' = [fn |-> "InnerTokenizer", inner_str |-> inner_str,
                   from |-> BodyOffset, offset |-> BodyOffset,
                   was |-> "InProperties", state |-> "InProperties", loops |-> 0]
    /\ ret' = Idle
    /\ UNCHANGED subVars

InnerTokenizerNext ==
    /\ call # Idle
    /\ call.fn = "InnerTokenizer"
    /\ ret # Panic
    /\ call.loops < Len(<<"inner", "self">>)
    /\ \E r \in {Inner_next(call.inner_str, InnerTokenizer(call.offset, call.state))} :
          /\ call' = [call EXCEPT !.from = call.offset, !.offset = r.tk.offset,
                                  !.was = call.state, !.state = r.tk.state,
                                  !.loops = IF Pushed(r.res) THEN @ ELSE @ + 1]
          /\ ret' = r.res
    /\ UNCHANGED subVars

NextParser ==
    \/ TokenizerNew
    \/ TokenizerNext
    \/ InnerNextRule
    \/ InnerTokenizerNew
    \/ InnerTokenizerNext

SpecParser == Init /\ [][NextParser]_vars

\* What ended each of the two child loops of next_rule: None or Some(Err(e)).
LoopEnds(inner, rest) == [inner |-> inner.last, rest |-> rest.last]

SecondLoop(inner_str, inner) ==
    LoopEnds(inner, children_while_ok(inner_str,
                        InnerTokenizer(inner.tk.offset, "InProperties"), inner.children))

FirstLoop(inner_str, selectors) ==
    SecondLoop(inner_str, children_while_ok(inner_str,
                              InnerTokenizer(selectors.tk.offset, "InProperties"), <<>>))

BodyLoops(inner_str) ==
    FirstLoop(inner_str, selector_list(inner_str, InnerTokenizer(0, "InSelectors")))

ChildErrorReturned(loops) ==
    (loops.inner # Panic /\ loops.rest # Panic) =>
        /\ loops.inner.some => ret.res = loops.inner.v
        /\ (~loops.inner.some /\ loops.rest.some) => ret.res = loops.rest.v

\* C12: when parsing a child of the rule body fails, in the first child loop
\* of next_rule or in the second, next_rule returns the error of that child.
C12_FirstErrorWins ==
    (call # Idle /\ call.fn = "next_rule") => ChildErrorReturned(BodyLoops(call.inner_str))

\* The number of bytes from i up to the closing brace that matches an opening
\* brace before i, counting the braces opened and closed in between.
RECURSIVE matching_brace(_, _, _)
matching_brace(inner_str, i, depth) ==
    IF i >= limit(inner_str) THEN 0
    ELSE IF inner_str[i + 1] = "{" THEN 1 + matching_brace(inner_str, i + 1, depth + 1)
    ELSE IF inner_str[i + 1] = "}"
         THEN (IF depth = 0 THEN 0 ELSE 1 + matching_brace(inner_str, i + 1, depth - 1))
    ELSE 1 + matching_brace(inner_str, i + 1, depth)

FirstOpenBrace(inner_str, from) ==
    Least({k \in from..(limit(inner_str) - 1) : inner_str[k + 1] = "{"})

\* C18: when Tokenizer::next returns a mixin, its body is the text from the
\* opening brace of the declaration up to the closing brace that matches it,
\* nested braces counted, and the offset is then just past that closing brace
\* (for a declaration whose opening brace has a matching closing brace).
C18_MixinBodyMatchingBrace ==
    (call # Idle /\ call.fn = "Tokenizer" /\ ret # Idle /\ ret # Panic /\ ret.some
        /\ ret.v.ok /\ ret.v.value.type = "Mixin") =>
        LET body_beginning == skip_leading_whitespace(call.inner_str,
                                  FirstOpenBrace(call.inner_str, call.from) + 1)
            body_end == body_beginning + matching_brace(call.inner_str, body_beginning, 0)
        IN  body_end < limit(call.inner_str) =>
                /\ ret.v.value.body = Slice(call.inner_str, body_beginning, body_end)
                /\ call.offset = body_end + 1

\* The value text of a property whose colon stands at the given offset.
ValueAfterColon(inner_str, colon) ==
    next_value(inner_str, skip_leading_whitespace(inner_str, colon + 1))

\* C23: in a rule body, when the byte after a parsed name is `{`, the item
\* returned is the rule parsed from the offset saved before the name, so its
\* only selector is that name; when it is `:`, the item is never a rule: it is
\* the property of that name, or the variable when the name starts with `$`,
\* or the error of parsing its value; and the state afterwards is
\* InProperties in both cases.
C23_PropertyOrNestedRule ==
    (call # Idle /\ call.fn = "InnerTokenizer" /\ ret # Idle /\ call.was = "InProperties") =>
        LET inner_str == call.inner_str
            saved_offset == skip_leading_whitespace(inner_str, call.from)
            name_end == saved_offset + scan_while_or_end(inner_str, saved_offset, NameChars)
            prop_name == Slice(inner_str, saved_offset, name_end)
            c == byte_at(inner_str, name_end)
        IN  prop_name # <<>> =>
                /\ c = "{" =>
                      /\ ret = Inner_next(inner_str,
                                         InnerTokenizer(saved_offset, "InSelectors")).res
                      /\ ret.some
                      /\ ret.v.ok =>
                            /\ ret.v.value.type = "ChildRule"
                            /\ ret.v.value.selectors = <<prop_name>>
                            /\ call.offset > name_end
                            /\ inner_str[call.offset] = "}"
                      /\ call.state = "InProperties"
                /\ c = ":" =>
                      /\ ret.some
                      /\ ret.v.ok =>
                            /\ ret.v.value =
                                  IF Head(prop_name) = "$"
                                  THEN SassVariable(prop_name,
                                           ValueAfterColon(inner_str, name_end).value)
                                  ELSE UnevaluatedProperty(prop_name,
                                           ValueAfterColon(inner_str, name_end).value)
                            /\ call.offset > name_end
                      /\ call.state = "InProperties"

\* Both cases in one body: a property was returned and then a nested rule.
C23_Witness ==
    /\ call # Idle /\ call.fn = "InnerTokenizer"
    /\ call.inner_str = <<"a", "{">> \o PropertyText \o NestedRuleText \o <<"}">>
    /\ call.from = BodyOffset + Len(PropertyText)
    /\ ret = Some(Ok(ChildRule(<<<<"a">>>>, <<UnevaluatedProperty(<<"b">>, <<"1">>)>>)))

\* The last call of Tokenizer::next returned an event.
EventReturned == call # Idle /\ call.fn = "Tokenizer" /\ ret # Idle /\ Pushed(ret)

\* C27: a call of Tokenizer::next that returns an event leaves the offset
\* greater than before and not beyond the end of the source, and the event
\* is the one read from the text between the two offsets, so the events come
\* in source order; a call at the end of the source returns None; and the
\* events pulled so far are no more than the bytes consumed, so that pulling
\* ends after at most as many events as the source has bytes.
C27_ParserProgress ==
    /\ EventReturned =>
          /\ call.offset > call.from
          /\ call.offset <= limit(call.inner_str)
          /\ Tokenizer_next(Slice(call.inner_str, call.from, call.offset),
                            Tokenizer(0)).res = ret
    /\ (call # Idle /\ call.fn = "Tokenizer") =>
          /\ call.pulled <= call.offset
          /\ call.offset <= limit(call.inner_str)
          /\ (ret # Idle /\ at_eof(call.inner_str, call.from)) => ret = None

\* Three events have been pulled from one source, the last one a rule that
\* ends the source.
C27_Witness ==
    /\ EventReturned
    /\ call.inner_str = <<"$", "a", ":", "1", ";", " ">> \o CommentText \o <<" ", "b", "{", "}">>
    /\ call.offset = limit(call.inner_str)
    /\ call.pulled = Len(<<"$a", "comment", "rule">>)
    /\ ret = Some(Ok(TopLevelRule(ChildRule(<<<<"b">>>>, <<>>))))

-----------------------------------------------------------------------------
(* The output streamer: Event::stream, SassRule::stream and Node::stream.  *)
(* What is written is a sequence of one-character strings.  The format     *)
(* parameters of the four CSS styles are those of the style table.         *)

Styles == {"nested", "expanded", "compact", "compressed"}

selector_separator(style) == IF style = "compressed" THEN <<",">> ELSE <<",", " ">>
selector_brace_separator(style) == IF style = "compressed" THEN <<>> ELSE <<" ">>
brace_property_separator(style) ==
    CASE style \in {"nested", "expanded"} -> <<"\n">>
      [] style = "compact" -> <<" ">>
      [] OTHER -> <<>>
before_property(style, nesting) == IF style = "nested" THEN nesting ELSE <<>>
after_property(style) == brace_property_separator(style)
property_brace_separator(style) == brace_property_separator(style)
rule_separator(style) == IF style = "compressed" THEN <<>> ELSE <<"\n">>

IsPrefix(p, str) == Len(p) <= Len(str) /\ SubSeq(str, 1, Len(p)) = p
IsInfix(p, str) == \E i \in 0..(Len(str) - Len(p)) : SubSeq(str, i + 1, i + Len(p)) = p

\* str.replace(from, to) for a non-empty text from.
RECURSIVE ReplaceAll(_, _, _)
ReplaceAll(str, from, to) ==
    IF str = <<>> THEN <<>>
    ELSE IF IsPrefix(from, str)
    THEN to \o ReplaceAll(SubSeq(str, Len(from) + 1, Len(str)), from, to)
    ELSE <<Head(str)>> \o ReplaceAll(Tail(str), from, to)

compress_selectors(selector_string) ==
    ReplaceAll(ReplaceAll(selector_string, <<" ", ">", " ">>, <<">">>),
               <<" ", "+", " ">>, <<"+">>)

\* str.lines(): the pieces between line feeds, without a final empty piece.
Lines(str) ==
    LET pieces == Split(str, "\n") IN
    IF pieces[Len(pieces)] = <<>> THEN SubSeq(pieces, 1, Len(pieces) - 1) ELSE pieces

Written(text) == [ok |-> TRUE, written |-> text]
NotWritten(kind) == [ok |-> FALSE, kind |-> kind, written |-> <<>>]

property_format(name, value, style) ==
    CASE style \in {"nested", "expanded"} -> <<" ", " ">> \o name \o <<":", " ">> \o value \o <<";">>
      [] style = "compressed" -> name \o <<":">> \o value
      [] style = "compact" -> name \o <<":", " ">> \o value \o <<";">>

\* after_property, before_property and the property, for each property but
\* the first.
RECURSIVE more_properties(_, _, _)
more_properties(properties, style, nesting) ==
    IF properties = <<>> THEN <<>>
    ELSE after_property(style) \o before_property(style, nesting)
            \o property_format(Head(properties).name, Head(properties).value, style)
            \o more_properties(Tail(properties), style, nesting)

recursive_stream(self, style, parents, nesting) ==
    LET distributed == selector_distribution(self, parents, selector_separator(style))
        selector_string == IF style = "compressed" THEN compress_selectors(distributed)
                           ELSE distributed
        properties == child_properties(self)
    IN  IF properties = <<>> THEN <<>>
        ELSE selector_string \o selector_brace_separator(style) \o <<"{">>
                \o brace_property_separator(style) \o before_property(style, nesting)
                \o property_format(properties[1].name, properties[1].value, style)
                \o more_properties(Tail(properties), style, nesting)
                \o property_brace_separator(style) \o <<"}">>

SassRule_stream(self, style) ==
    Written(recursive_stream(self, style, <<>>, <<>>) \o rule_separator(style))

Node_stream(node, style) ==
    IF node.type = "Rule" THEN SassRule_stream(node, style)
    ELSE Written(property_format(node.name, node.value, style))

comment_format(comment, style) ==
    CASE style \in {"nested", "expanded"} -> comment \o <<"\n">>
      [] style = "compressed" -> <<>>
      [] style = "compact" ->
            LET lines == Lines(comment) IN
            Join([k \in 1..Len(lines) |-> Trim(lines[k])], <<" ">>) \o <<"\n">>

List(events) == [type |-> "List", events |-> events]

\* for event in events { try!(event.stream(output, style)) }: what the
\* elements before the first failing one wrote stays written.
RECURSIVE Event_stream(_, _)
RECURSIVE stream_each(_, _)
stream_each(events, style) ==
    IF events = <<>> THEN Written(<<>>)
    ELSE LET first == Event_stream(Head(events), style)
             others == stream_each(Tail(events), style)
         IN  IF ~first.ok THEN first
             ELSE [others EXCEPT !.written = first.written \o others.written]

\* Mutant: an event of another kind is skipped without an error.
Event_stream_SkipOther(self, style) ==
    CASE self.type = "Rule" -> SassRule_stream(self, style)
      [] self.type = "Comment" -> Written(comment_format(self.text, style))
      [] self.type = "List" -> stream_each(self.events, style)
      [] OTHER -> Written(<<>>)

Event_stream(self, style) ==
    CASE self.type = "Rule" -> SassRule_stream(self, style)
      [] self.type = "Comment" -> Written(comment_format(self.text, style))
      [] self.type = "List" -> stream_each(self.events, style)
      [] OTHER -> NotWritten("UnexpectedTopLevelElement")

-----------------------------------------------------------------------------
(* Events handed to the streamer, one after the other, in one style        *)

MaxEvents == 2  \* events streamed to one output

X1 == Property(<<"x">>, <<"1">>)
Y2 == Property(<<"y">>, <<"2">>)
LineComment == Comment(<<"/", "*", "c", "*", "/">>)
BlockComment == Comment(<<"/", "*", " ", "a", "\n", " ", " ", " ", "b", " ", "*", "/">>)
ChildSpan == Rule(<<Lexeme(Span, None)>>, <<Y2>>)
ChildHover == Rule(<<Lexeme(AmpHover, None)>>, <<X1, ChildSpan>>)

StreamBodies ==
    {<<>>, <<X1>>, <<X1, Y2>>, <<X1, LineComment>>, <<BlockComment, X1>>, <<X1, ChildSpan>>,
     <<ChildSpan>>, <<X1, ChildHover, Y2>>}

StreamSelectors ==
    {<<Lexeme(Div, None)>>,
     <<Lexeme(<<".", "a", " ", ">", " ", ".", "b">>, None), Lexeme(<<".", "a", " ", "+", " ", ".", "c">>, None)>>}

StreamEvents ==
    {Rule(s, b) : s \in StreamSelectors, b \in StreamBodies}
        \cup {LineComment, BlockComment, Variable(<<"$", "a">>, <<"1">>),
              List(<<LineComment, Rule(<<Lexeme(Div, None)>>, <<X1>>)>>),
              List(<<BlockComment, X1, LineComment>>)}
        \cup {X1, UnevaluatedProperty(<<"x">>, <<"$", "a">>),
              Mixin(<<"m">>, <<>>, <<X1>>), MixinCall(<<"m">>, <<>>),
              List(<<List(<<LineComment, MixinCall(<<"m">>, <<>>)>>), BlockComment>>)}

StreamOpen ==
    /\ call = Idle
    /\ \E style \in Styles :
          call' = [fn |-> "stream", style |-> style, output |-> <<>>, n |-> 0]
    /\ ret' = Idle
    /\ UNCHANGED subVars

EventStream ==
    /\ call # Idle
    /\ call.fn = "stream"
    /\ call.n < MaxEvents
    /\ IF ret = Idle THEN TRUE ELSE ret.res.ok
    /\ \E event \in StreamEvents :
          LET res == Event_stream(event, call.style) IN
          /\ call' = [call EXCEPT !.output = call.output \o res.written, !.n = call.n + 1]
          /\ ret' = [event |-> event, res |-> res]
    /\ UNCHANGED subVars

\* SassTokenizer::parse prints twelve tokens and returns the source text as it
\* is; compile prints the tokenizer before that.
PrintedLines == <<"sr">> \o [k \in 1..12 |-> "token"]

compressed(sass) == ReplaceAll(ReplaceAll(sass, <<" ">>, <<>>), <<"\n">>, <<>>)

compile(sass, style) ==
    [stdout |-> PrintedLines,
     res |-> CASE style \in {"nested", "expanded", "compact"} -> sass
               [] style = "compressed" -> compressed(sass)
               [] OTHER -> Panic]

CompileStyles == Styles \cup {"debug", "scss", ""}

SassTexts == {<<>>, <<"a", "{", "b", ":", "1", ";", "}">>, <<"a", " ", "{", " ", "b", ":", " ", "1", ";", " ", "}", "\n">>}

Compile ==
    /\ call = Idle
    /\ \E sass \in SassTexts, style \in CompileStyles :
          /\ call' = [fn |-> "compile", sass |-> sass, style |-> style]
          /\ ret' = compile(sass, style)
    /\ UNCHANGED subVars

NextStream ==
    \/ StreamOpen
    \/ EventStream
    \/ Compile

SpecStream == Init /\ [][NextStream]_vars

Streamed == call # Idle /\ call.fn = "stream" /\ ret # Idle

\* The comments of a rule body, at any nesting depth.
RECURSIVE BodyComments(_)
BodyComments(children) ==
    UNION {IF children[i].type = "Comment" THEN {children[i].text}
           ELSE IF children[i].type = "Rule" THEN BodyComments(children[i].children)
           ELSE {} : i \in 1..Len(children)}

\* C13: a comment event streamed at the top level is written as its text and
\* a line feed in the nested and expanded styles, as its trimmed lines joined
\* by single spaces and a line feed in compact, and as nothing in compressed;
\* and the text of every comment inside the body of a streamed rule is part
\* of what is written in the nested, expanded and compact styles.
C13_CommentPreservation ==
    Streamed =>
        /\ ret.event.type = "Comment" =>
              /\ ret.res.ok
              /\ call.style \in {"nested", "expanded"} =>
                    ret.res.written = ret.event.text \o <<"\n">>
              /\ call.style = "compact" =>
                    ret.res.written = comment_format(ret.event.text, "compact")
              /\ call.style = "compressed" => ret.res.written = <<>>
        /\ (ret.event.type = "Rule" /\ call.style # "compressed") =>
              \A text \in BodyComments(ret.event.children) :
                  IsInfix(comment_format(text, call.style), ret.res.written)

KnownStyles == Styles \cup {"debug", "tokens", "ast"}

\* C20: compile called with a style outside the known set returns the error
\* InvalidStyle as a value: it does not abort, and it has written nothing.
C20_UnknownStyleIsInvalidStyle ==
    (call # Idle /\ call.fn = "compile" /\ call.style \notin KnownStyles) =>
        /\ ret.res # Panic
        /\ ret.res = Err("InvalidStyle")
        /\ ret.stdout = <<>>

\* What each element of a list writes on its own, and the first that fails
\* (one past the last when none does).
ElementResults(events, style) == [k \in 1..Len(events) |-> Event_stream(events[k], style)]

FirstFailure(results) ==
    Least({k \in 1..Len(results) : ~results[k].ok} \cup {Len(results) + 1})

\* C24: streaming an event that is not a Rule, a Comment or a List returns
\* the error UnexpectedTopLevelElement and writes nothing; streaming a List
\* writes what its elements write, in order, up to and with the first element
\* that returns an error (itself a list, it has written what precedes its
\* own failure), and returns that element's error.
C24_UnexpectedTopLevelElement ==
    Streamed =>
        /\ ret.event.type \notin {"Rule", "Comment", "List"} =>
              /\ ~ret.res.ok
              /\ ret.res.kind = "UnexpectedTopLevelElement"
              /\ ret.res.written = <<>>
        /\ ret.event.type = "List" =>
              LET results == ElementResults(ret.event.events, call.style)
                  f == FirstFailure(results)
              IN  /\ ret.res.written =
                        Flatten([k \in 1..Min(f, Len(results)) |-> results[k].written])
                  /\ ret.res.ok = (f > Len(results))
                  /\ f <= Len(results) => ret.res.kind = results[f].kind

\* A list whose second element is a property was streamed in a style that
\* writes comments: the comment before it is written, the one after it not.
C24_Witness ==
    /\ Streamed
    /\ ret.event = List(<<BlockComment, X1, LineComment>>)
    /\ call.style = "expanded"
    /\ ret.res = [ok |-> FALSE, kind |-> "UnexpectedTopLevelElement",
                  written |-> BlockComment.text \o <<"\n">>]

\* The block a rule with properties is written as, under the given parents.
OwnBlock(rule, style, parents) == recursive_stream(rule, style, parents, <<>>)

\* C19: streaming a rule that has properties writes first its own block
\* (selector list, open brace, properties, close brace) and after it, for
\* each child rule that has properties, the block of that child with this
\* rule's selector list as parents.
C19_RuleEmissionOrder ==
    (Streamed /\ ret.event.type = "Rule" /\ has_properties(ret.event)) =>
        LET own == OwnBlock(ret.event, call.style, <<>>)
            selector_string == selector_distribution(ret.event, <<>>,
                                                     selector_separator(call.style))
            crs == child_rules(ret.event)
        IN  /\ ret.res.ok
            /\ IsPrefix(own, ret.res.written)
            /\ \A i \in 1..Len(crs) :
                  has_properties(crs[i]) =>
                      IsInfix(OwnBlock(crs[i], call.style, selector_string),
                              SubSeq(ret.res.written, Len(own) + 1, Len(ret.res.written)))

-----------------------------------------------------------------------------
(* The value tokenizer: ValueTokenizer::next over a value text, a sequence *)
(* of one-character strings, with offsets counted from 0.                  *)

ValuePart_Variable(text) == [type |-> "Variable", text |-> text]
ValuePart_String(text) == [type |-> "String", text |-> text]
ValuePart_Number(scalar) == [type |-> "Number", scalar |-> scalar]
ValuePart_Operator(op) == [type |-> "Operator", op |-> op]

is_space(c) == c = " "
isnt_space(c) == ~is_space(c)
is_number(c) == c \in {"0", "1", "2", "3", "4", "5", "6", "7", "8", "9", "."}
is_operator(c) == c \in {"+", "-", "*", "/", "%", "(", ")", ","}

\* The operator a one-character text parses to.
OpOf(c) ==
    CASE c = "+" -> "Plus" [] c = "-" -> "Minus" [] c = "*" -> "Star" [] c = "/" -> "Slash"
      [] c = "%" -> "Percent" [] c = "(" -> "LeftParen" [] c = ")" -> "RightParen"
      [] c = "," -> "Comma"

\* The characters of a text that a predicate on characters accepts.
Accepted(value_str, f(_)) == {value_str[k] : k \in {j \in 1..Len(value_str) : f(value_str[j])}}

\* scan_while(data, f) with data = value_str[i..limit]: the length of the run
\* of bytes from i on that satisfy f.
scan_while(value_str, i, f) ==
    LET stops == {k \in i..(Len(value_str) - 1) : value_str[k + 1] \notin f} IN
    IF stops = {} THEN Len(value_str) - i ELSE Least(stops) - i

RECURSIVE Pow10(_)
Pow10(n) == IF n = 0 THEN 1 ELSE 10 * Pow10(n - 1)

RECURSIVE Decimal(_, _)
Decimal(digits, acc) ==
    IF digits = <<>> THEN acc
    ELSE Decimal(Tail(digits), 10 * acc + HexValues[Head(digits)])

RECURSIVE Reduced(_)
Reduced(q) ==
    IF q.den > 1 /\ q.num % 10 = 0 THEN Reduced([num |-> q.num \div 10, den |-> q.den \div 10])
    ELSE q

\* str::parse::<f32> of a run of digits and dots: digits with at most one dot
\* and at least one digit; the value is kept as an exact decimal fraction.
parse_f32(text) ==
    LET dots == {k \in 1..Len(text) : text[k] = "."}
        digits == SelectSeq(text, LAMBDA c : c # ".")
    IN  IF Cardinality(dots) > 1 \/ digits = <<>> THEN Err("ParseFloatError")
        ELSE Ok(Reduced([num |-> Decimal(digits, 0),
                         den |-> IF dots = {} THEN 1
                                 ELSE Pow10(Len(text) - (CHOOSE k \in dots : TRUE))]))

ValueTokenizer(value_str) == [value_str |-> value_str, offset |-> 0]

ValueTokenizer_skip_leading_whitespace(self) ==
    [self EXCEPT !.offset = self.offset + scan_while(self.value_str, self.offset, Accepted(self.value_str, is_space))]

\* parse after skip_leading_whitespace; start is the offset it left.
parse_at(self, start) ==
    LET value_str == self.value_str
        limit_ == Len(value_str)
    IN  \* self.bytes[start] with start = limit is an index out of bounds
        IF start >= limit_ THEN Step(Panic, self)
        ELSE IF is_operator(value_str[start + 1])
        THEN Step(Some(ValuePart_Operator(OpOf(value_str[start + 1]))),
                  [self EXCEPT !.offset = start + 1])
        ELSE IF is_number(value_str[start + 1])
        THEN LET i == start + scan_while(value_str, start, Accepted(value_str, is_number))
                 scalar == parse_f32(Slice(value_str, start, i))
             IN  IF ~scalar.ok THEN Step(Panic, [self EXCEPT !.offset = i])
                 ELSE Step(Some(ValuePart_Number(scalar.value)), [self EXCEPT !.offset = i])
        ELSE LET i == start + scan_while(value_str, start, Accepted(value_str, isnt_space)) IN
             IF value_str[start + 1] = "$"
             THEN Step(Some(ValuePart_Variable(Slice(value_str, start, i))),
                       [self EXCEPT !.offset = i])
             ELSE Step(Some(ValuePart_String(Slice(value_str, start, i))),
                       [self EXCEPT !.offset = i])

parse(self) == parse_at(self, ValueTokenizer_skip_leading_whitespace(self).offset)

ValueTokenizer_next(self) ==
    IF self.offset < Len(self.value_str) THEN parse(self) ELSE Step(None, self)

MaxValueLen == 4    \* bytes of a sampled value text

ValueAlphabet == {" ", "p", "$", "1", ".", "+", ","}

ValueTexts == UNION {[1..n -> ValueAlphabet] : n \in 0..MaxValueLen}

ValueTokenizerNew ==
    /\ call = Idle
    /\ \E value_str \in ValueTexts :
          call' = [fn |-> "ValueTokenizer", value_str |-> value_str, from |-> 0, offset |-> 0]
    /\ ret' = Idle
    /\ UNCHANGED subVars

ValueTokenizerNext ==
    /\ call # Idle
    /\ call.fn = "ValueTokenizer"
    /\ ret # Panic
    /\ \E r \in {ValueTokenizer_next([value_str |-> call.value_str, offset |-> call.offset])} :
          /\ call' = [call EXCEPT !.from = call.offset, !.offset = r.tk.offset]
          /\ ret' = r.res
    /\ UNCHANGED subVars

NextValue ==
    \/ ValueTokenizerNew
    \/ ValueTokenizerNext

SpecValue == Init /\ [][NextValue]_vars

\* A call of next has returned res.
Returned == call # Idle /\ call.fn = "ValueTokenizer" /\ ret # Idle

ReturnedPart(type) == Returned /\ ret # Panic /\ ret.some /\ ret.v.type = type

Ends(c) == is_space(c) \/ is_operator(c)

\* C15: a String part and a Variable part hold no space and no operator
\* character, and end at the end of the text or right before a space or an
\* operator character; what follows the part is tokenized from there on.
C15_StringAndVariableEndAtOperator ==
    (ReturnedPart("String") \/ ReturnedPart("Variable")) =>
        /\ \A k \in 1..Len(ret.v.text) : ~Ends(ret.v.text[k])
        /\ ret.v.text = Slice(call.value_str, call.offset - Len(ret.v.text), call.offset)
        /\ call.offset < Len(call.value_str) => Ends(call.value_str[call.offset + 1])

IsLetter(c) == c \in {"p"}

\* C16: the letters that directly follow the digits of a number belong to the
\* Number part as its unit: the offset after the part is past them and the
\* part carries them.
C16_UnitAttachedToNumber ==
    ReturnedPart("Number") =>
        LET start == call.from + scan_while(call.value_str, call.from, Accepted(call.value_str, is_space))
            digits_end == start + scan_while(call.value_str, start, Accepted(call.value_str, is_number))
            unit == Slice(call.value_str, digits_end,
                          digits_end + scan_while(call.value_str, digits_end, Accepted(call.value_str, IsLetter)))
        IN  /\ call.offset = digits_end + Len(unit)
            /\ unit # <<>> => ("unit" \in DOMAIN ret.v /\ ret.v.unit = Some(unit))

\* C17: no call of next aborts; the offset never decreases and never passes
\* the end of the text; a part is returned exactly when a byte that is not a
\* space is left, and it begins at the first such byte; None is
\* returned when only spaces are left.
C17_ValueTokenizerTotal ==
    Returned =>
        LET start == call.from + scan_while(call.value_str, call.from, Accepted(call.value_str, is_space)) IN
        /\ ret # Panic
        /\ call.from <= call.offset
        /\ call.offset <= Len(call.value_str)
        /\ IF start < Len(call.value_str)
           THEN ret.some /\ call.offset > start
           ELSE ret = None

====
